---------------------------- MODULE Spec2Model ----------------------------
(***************************************************************************)
(* A model of the O3 neuron/network engine (src/src/neuron.cpp,            *)
(* src/src/network.cpp, src/src/synapse.cpp, src/src/neuron_gate.cpp).     *)
(*                                                                         *)
(* Neurons are objects (shared_ptr identities); several objects may carry  *)
(* the same id string.  Floats are fixed-point numbers with One units per  *)
(* 1.0f, extended with the value NaN, which std::stof produces from the    *)
(* text "nan" and which every ordered comparison rejects.                  *)
(***************************************************************************)
EXTENDS Integers, Sequences, FiniteSets, TLC

\* ------------------------------------------------------------------ values

\* 1.0f in fixed-point units (two decimals).
One == 100

\* How deep the engine's call stack may grow before the model stops following it.
MaxDepth == 7

\* How many signals the caller hands to neurons, and how many listeners and
\* observers it registers in all.
MaxStimuli == 2
MaxListeners == 2

\* How many times the callers call Network::processSignals.
MaxPasses == 2

\* How many Synapse objects the caller holds at once.
MaxSignals == 3

\* The rules a caller gives a subconscious network.
MaxPatterns == 2

\* The gates a caller creates on one neuron.
MaxGates == 2

\* The float NaN: a value outside the fixed-point range that the float
\* operators below treat as IEEE 754 treats NaN.
NaN == -999999

\* The "strength" payload key: absent, or present with a text std::stof rejects.
NoData == -888888
Junk == -777777

Null == "null"

\* The threads that call into the engine.
Threads == {"t1", "t2"}

\* The neuron objects of the model and the id each was constructed with:
\* n3 is a second object constructed with n1's id.
Objs == {"n1", "n2", "n3"}

IdOf(o) == IF o = "n2" THEN "b" ELSE "a"

\* Ids a caller may name: the two in use and one that names no neuron.
Ids == {"a", "b", "zz"}

\* Connection weights callers set on edges: two in the specification of the
\* Neuron edge calls, one where the registry calls are explored as well.
EdgeWeights == {70, 40}
RegistryWeights == {70}

\* ------------------------------------------------------------------ state

VARIABLES
    connections,    \* Neuron::connections: [Objs -> the map target -> weight]
    inputs,         \* Neuron::inputs: [Objs -> Seq(Objs)], the weak back-references
    neurons,        \* Network::neurons: [Ids -> object or Null]
    inputNeurons,   \* Network::inputNeurons: Seq(Objs)
    outputNeurons,  \* Network::outputNeurons: Seq(Objs)
    processing,     \* Network::processing: the atomic flag of the pass in flight
    processCallbacks, \* Network::processCallbacks: Seq of what each observer does
    last,           \* the last call made by the caller, with its result
    prev,           \* the call before it, when it was the same operation on the same neurons
    state,          \* Neuron::state
    threshold,      \* Neuron::threshold
    potential,      \* Neuron::potential
    inputSignals,   \* Neuron::inputSignals: [Objs -> Seq(signal)]
    outputSignals,  \* Neuron::outputSignals: [Objs -> Seq(signal)]
    gates,          \* Neuron::gates: [Objs -> Seq(gate)]
    fireCallbacks,  \* Neuron::fireCallbacks: [Objs -> Seq of what each listener does]
    stateChangeCallbacks, \* Neuron::stateChangeCallbacks: the same, for setState
    stack,          \* each thread's call stack of engine frames, innermost last
    events,         \* what the current (or last) outermost call did, in order
    stimuli,        \* how many signals the caller has handed to neurons
    passes,         \* how many times the callers have called Network::processSignals
    signals,        \* the Synapse objects the caller holds: Seq(signal)
    focusedNeuronId, \* ConsciousNetwork::focusedNeuronId
    patterns,       \* SubconsciousNetwork::patterns: Seq of [pattern, response]
    tags,           \* Neuron::tags: [Objs -> set of tags]
    metadata        \* Neuron::metadata: [Objs -> set of keys]

\* What the network tiers add, and the labels of the neurons they read.
TierVars == <<focusedNeuronId, patterns, tags, metadata>>

NeuronVars == <<state, threshold, potential, inputSignals, outputSignals, gates, fireCallbacks, stateChangeCallbacks>>

vars == <<connections, inputs, neurons, inputNeurons, outputNeurons, processing,
          processCallbacks, last, prev, state, threshold, potential, inputSignals,
          outputSignals, gates, fireCallbacks, stateChangeCallbacks, stack, events, stimuli, passes, signals,
          focusedNeuronId, patterns, tags, metadata>>

NoCall == [op |-> "none"]

\* ----------------------------------------------------------------- floats

\* Neuron::Neuron, the default branch of the threshold switch: 0.5f.
DefaultThreshold == 50

\* Neuron::processSignals and Neuron::fire: "float strength = 0.5f", the
\* strength read when the payload has no usable "strength" key.
DefaultStrength == 50

\* p / d rounded to the nearest unit, halves away from zero.
RoundDiv(p, d) ==
    IF p >= 0 THEN (2 * p + d) \div (2 * d) ELSE -((2 * (-p) + d) \div (2 * d))

\* float +, * and / n: NaN in, NaN out.
FAdd(a, b) == IF a = NaN \/ b = NaN THEN NaN ELSE a + b
FMul(a, b) == IF a = NaN \/ b = NaN THEN NaN ELSE RoundDiv(a * b, One)
FDivN(a, n) == IF a = NaN THEN NaN ELSE RoundDiv(a, n)

\* float < and >=: false as soon as one side is NaN.
FLt(a, b) == a # NaN /\ b # NaN /\ a < b
FGe(a, b) == a # NaN /\ b # NaN /\ a >= b

\* A bound that stops at 1 and lets everything below through.
clampStrength_upper(x) == IF FLt(x, One) THEN x ELSE One

\* std::min(1.0f, std::max(0.0f, x)) of Synapse: max and min keep their first
\* argument when the comparison fails, so NaN becomes 0.
clampStrength(x) ==
    LET m == IF FLt(0, x) THEN x ELSE 0
    IN  IF FLt(m, One) THEN m ELSE One

\* ------------------------------------------------------------- sequences

InSeq(x, s) == \E i \in DOMAIN s : s[i] = x

\* std::remove / std::remove_if followed by erase: the elements that stay, in order.
RECURSIVE RemoveAll(_, _)
RemoveAll(s, x) ==
    IF s = <<>> THEN <<>>
    ELSE IF Head(s) = x THEN RemoveAll(Tail(s), x)
         ELSE <<Head(s)>> \o RemoveAll(Tail(s), x)

RECURSIVE CountIn(_, _)
CountIn(s, x) ==
    IF s = <<>> THEN 0
    ELSE (IF Head(s) = x THEN 1 ELSE 0) + CountIn(Tail(s), x)

\* ------------------------------------------------------------------ edges
\* The pure effect of the Neuron edge operations on the pair
\* E = [connections, inputs], with the value each returns.

Edges(c, i) == [connections |-> c, inputs |-> i]

\* connections.find(target) != connections.end()
HasEdge(E, a, b) == b \in DOMAIN E.connections[a]

\* connections[target] = weight: the map entry is written or created.
MapPut(m, k, v) == [x \in DOMAIN m \cup {k} |-> IF x = k THEN v ELSE m[x]]

\* connections.erase(it)
MapErase(m, k) == [x \in DOMAIN m \ {k} |-> m[x]]

EmptyMap == [x \in {} |-> 0]

\* A connectTo that rejects only the null target.
connectToRejects_nullOnly(a, b) == b = Null

\* Neuron::connectTo, first branch: the target is null or the neuron itself.
connectToRejects(a, b) == b = Null \/ b = a

\* A connectTo that pushes the back-reference on every call.
connectToInputs_always(E, a, b) == [E.inputs EXCEPT ![b] = Append(@, a)]

\* Neuron::connectTo: the back-reference is pushed only for a new connection.
connectToInputs(E, a, b) ==
    IF HasEdge(E, a, b) THEN E.inputs
    ELSE [E.inputs EXCEPT ![b] = Append(@, a)]

\* A connectTo that leaves the weight of an existing connection as it was.
connectToEdges_keepWeight(E, a, b, w) ==
    IF connectToRejects(a, b) \/ HasEdge(E, a, b) THEN E
    ELSE Edges([E.connections EXCEPT ![a] = MapPut(@, b, w)], connectToInputs(E, a, b))

\* Neuron::connectTo: the weight is written for a new and for an existing connection.
connectToEdges(E, a, b, w) ==
    IF connectToRejects(a, b) THEN E
    ELSE Edges([E.connections EXCEPT ![a] = MapPut(@, b, w)], connectToInputs(E, a, b))

connectToRet(E, a, b, w) == ~connectToRejects(a, b)

\* Neuron::disconnectFrom: false for a null target or a target not connected.
disconnectFromRet(E, a, b) == b # Null /\ HasEdge(E, a, b)

\* A disconnectFrom that forgets the target's back-reference.
disconnectFromInputs_keep(E, a, b) == E.inputs

\* Neuron::disconnectFrom: the remove_if over the target's inputs.
disconnectFromInputs(E, a, b) == [E.inputs EXCEPT ![b] = RemoveAll(@, a)]

disconnectFromEdges(E, a, b) ==
    IF ~disconnectFromRet(E, a, b) THEN E
    ELSE Edges([E.connections EXCEPT ![a] = MapErase(@, b)],
               disconnectFromInputs(E, a, b))

\* Neuron::setConnectionWeight: only an existing connection is written.
setConnectionWeightRet(E, a, b) == HasEdge(E, a, b)

setConnectionWeightEdges(E, a, b, w) ==
    IF setConnectionWeightRet(E, a, b)
    THEN Edges([E.connections EXCEPT ![a] = MapPut(@, b, w)], E.inputs)
    ELSE E

\* Neuron::getConnectionWeight: 0.0f when there is no connection.
getConnectionWeight(E, a, b) ==
    IF HasEdge(E, a, b) THEN E.connections[a][b] ELSE 0

\* Neuron::getOutputs: the targets of the connections map.
getOutputs(E, a) == DOMAIN E.connections[a]

\* Neuron::getInputs: the back-references that still lock, in order.
getInputs(E, a) == E.inputs[a]


\* --------------------------------------------------------------- registry
\* The pure effect of the Network registry operations on
\* N = [neurons, inputNeurons, outputNeurons] and the edges E.

Net(n, i, o) == [neurons |-> n, inputNeurons |-> i, outputNeurons |-> o]

\* Network::getNeuron: the registered object, or nullptr.
getNeuron(N, id) == N.neurons[id]

\* Network::removeNeuron, lines 91-94: disconnect the neuron from each output.
RECURSIVE removeNeuronOutputs(_, _, _)
removeNeuronOutputs(E, n, outs) ==
    IF outs = {} THEN E
    ELSE LET b == CHOOSE x \in outs : TRUE
         IN  removeNeuronOutputs(disconnectFromEdges(E, n, b), n, outs \ {b})

\* Network::removeNeuron, lines 97-100: disconnect each input from the neuron.
RECURSIVE removeNeuronInputs(_, _, _)
removeNeuronInputs(E, n, ins) ==
    IF ins = <<>> THEN E
    ELSE removeNeuronInputs(disconnectFromEdges(E, Head(ins), n), n, Tail(ins))

removeNeuronRet(N, id) == getNeuron(N, id) # Null

removeNeuronEdges(N, E, id) ==
    IF ~removeNeuronRet(N, id) THEN E
    ELSE LET n  == getNeuron(N, id)
             E1 == removeNeuronOutputs(E, n, getOutputs(E, n))
         IN  removeNeuronInputs(E1, n, getInputs(E1, n))

\* A removal that leaves the input and output lists alone.
removeNeuronNet_keepLists(N, id) ==
    Net([N.neurons EXCEPT ![id] = Null], N.inputNeurons, N.outputNeurons)

removeNeuronNet(N, id) ==
    IF ~removeNeuronRet(N, id) THEN N
    ELSE LET n == getNeuron(N, id)
         IN  Net([N.neurons EXCEPT ![id] = Null],
                 RemoveAll(N.inputNeurons, n),
                 RemoveAll(N.outputNeurons, n))

\* Network::addNeuron: refused for nullptr and for an id already registered.
addNeuronRet(N, o) == o # Null /\ getNeuron(N, IdOf(o)) = Null

addNeuronNet(N, o) ==
    IF addNeuronRet(N, o)
    THEN Net([N.neurons EXCEPT ![IdOf(o)] = o], N.inputNeurons, N.outputNeurons)
    ELSE N

\* Network::connectNeurons: both ids are looked up, then Neuron::connectTo.
connectNeuronsRet(N, E, sid, tid, w) ==
    /\ getNeuron(N, sid) # Null
    /\ getNeuron(N, tid) # Null
    /\ connectToRet(E, getNeuron(N, sid), getNeuron(N, tid), w)

connectNeuronsEdges(N, E, sid, tid, w) ==
    IF getNeuron(N, sid) = Null \/ getNeuron(N, tid) = Null THEN E
    ELSE connectToEdges(E, getNeuron(N, sid), getNeuron(N, tid), w)

\* Network::disconnectNeurons: both ids are looked up, then Neuron::disconnectFrom.
disconnectNeuronsRet(N, E, sid, tid) ==
    /\ getNeuron(N, sid) # Null
    /\ getNeuron(N, tid) # Null
    /\ disconnectFromRet(E, getNeuron(N, sid), getNeuron(N, tid))

disconnectNeuronsEdges(N, E, sid, tid) ==
    IF getNeuron(N, sid) = Null \/ getNeuron(N, tid) = Null THEN E
    ELSE disconnectFromEdges(E, getNeuron(N, sid), getNeuron(N, tid))

\* ------------------------------------------------------- the caller's calls

CurE == Edges(connections, inputs)
CurN == Net(neurons, inputNeurons, outputNeurons)

Call(op, a, b, w, r) == [op |-> op, a |-> a, b |-> b, w |-> w, ret |-> r]

\* The history the caller keeps: the call just made, and the one before it
\* when that was the same operation on the same two neurons.
Record(c) ==
    /\ last' = c
    /\ prev' = IF last # NoCall /\ last.op = c.op /\ last.a = c.a /\ last.b = c.b
               THEN last ELSE NoCall

SetEdges(E) ==
    /\ connections' = E.connections
    /\ inputs' = E.inputs

SetNet(N) ==
    /\ neurons' = N.neurons
    /\ inputNeurons' = N.inputNeurons
    /\ outputNeurons' = N.outputNeurons
    /\ UNCHANGED <<processing, processCallbacks, TierVars>>

NetVars == <<neurons, inputNeurons, outputNeurons, processing, processCallbacks, TierVars>>
EdgeVars == <<connections, inputs>>
RunVars == <<stack, events, stimuli, passes, signals>>

\* a->connectTo(b, w)
ConnectTo(a, b, w) ==
    /\ SetEdges(connectToEdges(CurE, a, b, w))
    /\ UNCHANGED <<NetVars, NeuronVars, RunVars>>

\* a->disconnectFrom(b)
DisconnectFrom(a, b) ==
    /\ SetEdges(disconnectFromEdges(CurE, a, b))
    /\ UNCHANGED <<NetVars, NeuronVars, RunVars>>

\* a->setConnectionWeight(b, w)
SetConnectionWeight(a, b, w) ==
    /\ SetEdges(setConnectionWeightEdges(CurE, a, b, w))
    /\ UNCHANGED <<NetVars, NeuronVars, RunVars>>

\* network.addNeuron(o)
AddNeuron(o) ==
    /\ SetNet(addNeuronNet(CurN, o))
    /\ UNCHANGED <<EdgeVars, NeuronVars, RunVars>>

\* network.removeNeuron(id)
RemoveNeuron(id) ==
    /\ SetEdges(removeNeuronEdges(CurN, CurE, id))
    /\ SetNet(removeNeuronNet(CurN, id))
    /\ UNCHANGED <<NeuronVars, RunVars>>

\* network.connectNeurons(sid, tid, w)
ConnectNeurons(sid, tid, w) ==
    /\ SetEdges(connectNeuronsEdges(CurN, CurE, sid, tid, w))
    /\ UNCHANGED <<NetVars, NeuronVars, RunVars>>

\* network.disconnectNeurons(sid, tid)
DisconnectNeurons(sid, tid) ==
    /\ SetEdges(disconnectNeuronsEdges(CurN, CurE, sid, tid))
    /\ UNCHANGED <<NetVars, NeuronVars, RunVars>>

\* ---------------------------------------------------------------- signals
\* A Synapse, as far as the engine reads it: the strength field and the text
\* under the payload key "strength".

Sig(str, data) == [strength |-> str, data |-> data]

\* Synapse::Synapse: the strength field is clamped; the payload starts empty.
newSynapse(str) == Sig(clampStrength(str), NoData)

\* Synapse::derive(strength = -1.0f): the strength field is the argument when
\* that is >= 0 and inherited otherwise; the payload is not copied.
derive(sig, d) == newSynapse(IF FGe(d, 0) THEN d ELSE sig.strength)

\* Synapse::combine, lines 104-110: the mean of the two strength fields in a
\* new Synapse, or derive() when the other signal is null; the pointer other
\* is <<>> for nullptr and <<signal>> otherwise.
combine(sig, other) ==
    IF other = <<>> THEN derive(sig, -One)
    ELSE newSynapse(FDivN(FAdd(sig.strength, other[1].strength), 2))

\* hasData("strength") and std::stof in Neuron::processSignals and Neuron::fire:
\* the default stays when the key is absent or std::stof throws.
readStrength(sig) ==
    IF sig.data = NoData \/ sig.data = Junk THEN DefaultStrength ELSE sig.data

\* ------------------------------------------------------------------ gates
\* NeuronGate::process on the one-element input list Neuron::processSignals
\* passes: <<>> for nullptr, <<result>> otherwise.

Gate(kind, thr, active, factor) ==
    [kind |-> kind, threshold |-> thr, active |-> active, factor |-> factor]

\* AndGate::process, lines 67-73: every input is at or above the threshold.
RECURSIVE allAboveThreshold(_, _)
allAboveThreshold(thr, ins) ==
    \/ ins = <<>>
    \/ ~FLt(Head(ins).strength, thr) /\ allAboveThreshold(thr, Tail(ins))

\* AndGate::process, lines 81-84: the sum of the strength fields.
RECURSIVE totalStrength(_)
totalStrength(ins) ==
    IF ins = <<>> THEN 0
    ELSE FAdd(Head(ins).strength, totalStrength(Tail(ins)))

\* OrGate::process, lines 116-127: the loop from input i on, maxStrength
\* starting at 0.0f and best at no input (0); an input replaces the strongest
\* so far when it is at or above the threshold and above maxStrength.
RECURSIVE strongestInput(_, _, _, _, _)
strongestInput(thr, ins, i, maxStrength, best) ==
    IF i > Len(ins) THEN best
    ELSE IF FGe(ins[i].strength, thr) /\ FLt(maxStrength, ins[i].strength)
         THEN strongestInput(thr, ins, i + 1, ins[i].strength, i)
         ELSE strongestInput(thr, ins, i + 1, maxStrength, best)

\* An XOR gate that ignores inputs after the second.
xorInputs_atLeastTwo(ins) == Len(ins) >= 2

\* XorGate::process, line 178: exactly two inputs.
xorInputs(ins) == Len(ins) = 2

\* std::abs(strength1 - strength2), XorGate::process line 194.
absDiff(a, b) == IF a >= b THEN a - b ELSE b - a

\* NeuronGate::process of each kind on a list of non-null inputs; CUSTOM is
\* the factory's default processor, which derives from the first input.
process(g, ins) ==
    CASE g.kind = "AND" ->
            IF ins = <<>> \/ ~allAboveThreshold(g.threshold, ins) THEN <<>>
            ELSE <<newSynapse(FDivN(totalStrength(ins), Len(ins)))>>
      [] g.kind = "OR" ->
            LET k == strongestInput(g.threshold, ins, 1, 0, 0)
            IN  IF k = 0 THEN <<>> ELSE <<derive(ins[k], -One)>>
      [] g.kind = "NOT" ->
            IF ins = <<>> THEN <<>> ELSE <<newSynapse(One - ins[1].strength)>>
      [] g.kind = "XOR" ->
            LET above1 == FGe(ins[1].strength, g.threshold)
                above2 == FGe(ins[2].strength, g.threshold)
            IN  IF ~xorInputs(ins) \/ above1 = above2 THEN <<>>
                ELSE <<newSynapse(absDiff(ins[1].strength, ins[2].strength))>>
      [] g.kind = "THRESHOLD" ->
            IF ins # <<>> /\ FGe(ins[1].strength, g.threshold)
            THEN <<newSynapse(ins[1].strength)>> ELSE <<>>
      [] g.kind = "MODULATOR" ->
            IF ins = <<>> THEN <<>>
            ELSE <<newSynapse(FMul(ins[1].strength, g.factor))>>
      [] OTHER -> IF ins = <<>> THEN <<>> ELSE <<derive(ins[1], -One)>>

\* The call Neuron::processSignals makes, lines 198-199: gateInput = { signal }.
gateProcess(g, sig) == process(g, <<sig>>)

\* Neuron::processSignals, lines 194-213: the first active gate with a result
\* claims the signal; an unclaimed signal passes through as it is.
\* A neuron that asks every gate, active or not.
RECURSIVE applyGates_inactiveToo(_, _)
applyGates_inactiveToo(gs, sig) ==
    IF gs = <<>> THEN sig
    ELSE LET r == gateProcess(Head(gs), sig)
         IN  IF r # <<>> THEN r[1] ELSE applyGates_inactiveToo(Tail(gs), sig)

RECURSIVE applyGates(_, _)
applyGates(gs, sig) ==
    IF gs = <<>> THEN sig
    ELSE LET r == IF Head(gs).active THEN gateProcess(Head(gs), sig) ELSE <<>>
         IN  IF r # <<>> THEN r[1] ELSE applyGates(Tail(gs), sig)

processedOf(gs, sigs) == [i \in DOMAIN sigs |-> applyGates(gs, sigs[i])]

\* NeuronGate::NeuronGate: adaptationRate(0.1f).
AdaptationRate == 10

\* NeuronGate::adapt: the floor 0.1f and the ceiling 0.9f.
AdaptFloor == 10
AdaptCeiling == 90

\* An adaptation that moves the threshold without floor or ceiling.
adapt_unbounded(thr, success) ==
    IF success THEN thr - AdaptationRate ELSE thr + AdaptationRate

\* NeuronGate::adapt, lines 38-44: std::max(0.1f, threshold - adaptationRate)
\* on success, std::min(0.9f, threshold + adaptationRate) on failure.
adapt(thr, success) ==
    IF success
    THEN IF FLt(AdaptFloor, thr - AdaptationRate) THEN thr - AdaptationRate ELSE AdaptFloor
    ELSE IF FLt(thr + AdaptationRate, AdaptCeiling) THEN thr + AdaptationRate
         ELSE AdaptCeiling

\* NeuronGate::NeuronGate, ThresholdGate and ModulatorGate as the factory
\* calls them: threshold 0.5f, active, factor 1.0f.
newGate(kind) == Gate(kind, DefaultThreshold, TRUE, One)

\* ------------------------------------------------------- neuron processing

RECURSIVE sumStrengths(_)
sumStrengths(sigs) ==
    IF sigs = <<>> THEN 0
    ELSE FAdd(readStrength(Head(sigs)), sumStrengths(Tail(sigs)))

\* Neuron::processSignals, lines 238-243: the two ifs that bound the potential.
boundPotential(x) ==
    LET lo == IF FLt(x, 0) THEN 0 ELSE x
    IN  IF FLt(One, lo) THEN One ELSE lo

\* A neuron that adds the sum of the contributions, not their mean.
potentialAfter_sum(pot, processed) ==
    boundPotential(FAdd(pot, sumStrengths(processed)))

\* Neuron::processSignals, lines 219-243: potential += delta / size, bounded.
potentialAfter(pot, processed) ==
    boundPotential(FAdd(pot, FDivN(sumStrengths(processed),
                                   IF Len(processed) > 0 THEN Len(processed) ELSE 1)))

\* A neuron that fires only above its threshold.
reachesThreshold_strict(pot, thr) == FLt(thr, pot)

\* Neuron::processSignals, line 246: potential >= threshold.
reachesThreshold(pot, thr) == FGe(pot, thr)

\* Neuron::processSignals, line 181.
\* A neuron that only the refractory state blocks.
blocked_refractoryOnly(st) == st = "REFRACTORY"

\* Neuron::processSignals, lines 180-182: the states in which it returns at once.
blocked(st) == st = "REFRACTORY" \/ st = "INHIBITED"

\* A default signal that carries full strength whatever the potential is.
defaultSignal_full(o, pot) ==
    [strength |-> clampStrength(One), data |-> One, source |-> IdOf(o)]

\* Neuron::fire, lines 268-274: the default output signal, a new Synapse whose
\* payload holds the neuron's id under "source" and the potential under
\* "strength".
defaultSignal(o, pot) ==
    [strength |-> clampStrength(One), data |-> pot, source |-> IdOf(o)]

\* A copy that is derived and sent on without the weighted strength.
weightedCopy_plain(sig, w) == derive(sig, -One)

\* Neuron::fire, lines 281-297: the weighted copy sent along an edge.
weightedCopy(sig, w) == Sig(derive(sig, -One).strength, FMul(readStrength(sig), w))

\* ------------------------------------------------------------- call stacks
\* The engine is synchronous and recursive: receiveSignal calls processSignals,
\* which calls fire, which calls receiveSignal on every target.  A frame is one
\* activation of processSignals ("proc") or fire ("fire") with its position.

Frame(k, o, pc, processed, ts, j) ==
    [k |-> k, self |-> o, pc |-> pc, processed |-> processed, ts |-> ts, j |-> j]

ProcFrame(o) == Frame("proc", o, "enter", <<>>, <<>>, 0)
FireFrame(o) == Frame("fire", o, "start", <<>>, <<>>, 0)

Top(t) == stack[t][Len(stack[t])]
Pop(t) == [stack EXCEPT ![t] = SubSeq(@, 1, Len(@) - 1)]
SetTop(t, f) == [stack EXCEPT ![t][Len(stack[t])] = f]
SetTopPush(t, f, g) == [stack EXCEPT ![t] = Append([@ EXCEPT ![Len(@)] = f], g)]
Idle == \A t \in Threads : stack[t] = <<>>

Event(e, a, b, v) == [e |-> e, a |-> a, b |-> b, v |-> v]

\* The orders in which a map keyed by shared_ptr may list the keys ks: the
\* order of the objects' addresses, which the program does not choose.
Orders(ks) ==
    {q \in [1..Cardinality(ks) -> ks] : \A i, j \in DOMAIN q : i # j => q[i] # q[j]}

\* A neuron that goes on with an empty buffer.
nothingPending_never(sigs) == FALSE

\* Neuron::processSignals, lines 184-186: inputSignals.empty().
nothingPending(sigs) == sigs = <<>>

\* A neuron that leaves the signals it has processed in the buffer.
clearedBuffer_kept(sigs) == sigs

\* Neuron::processSignals, line 216: inputSignals.clear().
clearedBuffer(sigs) == <<>>

\* Neuron::processSignals, lines 181-248, up to the call of fire().
ProcEnter(t) ==
    LET f == Top(t)
        o == f.self
        processed == processedOf(gates[o], inputSignals[o])
        pot == potentialAfter(potential[o], processed)
    IN  /\ f.k = "proc" /\ f.pc = "enter"
        /\ IF blocked(state[o]) \/ nothingPending(inputSignals[o])
           THEN /\ stack' = Pop(t)
                /\ UNCHANGED <<inputSignals, potential>>
           ELSE /\ inputSignals' = [inputSignals EXCEPT ![o] = clearedBuffer(@)]
                /\ potential' = [potential EXCEPT ![o] = pot]
                /\ IF reachesThreshold(pot, threshold[o])
                   THEN /\ Len(stack[t]) < MaxDepth
                        /\ stack' = SetTopPush(t, [f EXCEPT !.pc = "refractory",
                                                            !.processed = processed],
                                               FireFrame(o))
                   ELSE stack' = SetTop(t, [f EXCEPT !.pc = "store",
                                                     !.processed = processed])
        /\ UNCHANGED <<state, threshold, outputSignals, gates, fireCallbacks, stateChangeCallbacks, events>>

\* Neuron::setState, lines 70-91: what every state-change listener is called
\* with (the neuron, the old and the new state), and the potential it reads
\* from the neuron at that moment.
StateChange(o, old, new, pot) == [e |-> "state", a |-> o, b |-> new, v |-> pot, old |-> old]

\* Neuron::processSignals, line 251: setState(REFRACTORY) once fire() is back.
ProcRefractory(t) ==
    LET f == Top(t)
    IN  /\ f.k = "proc" /\ f.pc = "refractory"
        /\ state' = [state EXCEPT ![f.self] = "REFRACTORY"]
        /\ events' = Append(events, StateChange(f.self, state[f.self], "REFRACTORY",
                                                potential[f.self]))
        /\ stack' = SetTop(t, [f EXCEPT !.pc = "reset"])
        /\ UNCHANGED <<threshold, potential, inputSignals, outputSignals, gates,
                       fireCallbacks, stateChangeCallbacks>>

\* A neuron that resets its potential only after the transition to RESTING.
potentialAtResting_late(pot) == pot

\* Neuron::processSignals, line 254: potential = 0.0f comes before
\* setState(RESTING), so that is the potential the listeners find.
potentialAtResting(pot) == 0

\* Neuron::processSignals, lines 254-258: potential = 0, setState(RESTING).
ProcResting(t) ==
    LET f == Top(t)
    IN  /\ f.k = "proc" /\ f.pc = "reset"
        /\ potential' = [potential EXCEPT ![f.self] = 0]
        /\ state' = [state EXCEPT ![f.self] = "RESTING"]
        /\ events' = Append(events, StateChange(f.self, state[f.self], "RESTING",
                                                potentialAtResting(potential[f.self])))
        /\ stack' = SetTop(t, [f EXCEPT !.pc = "store"])
        /\ UNCHANGED <<threshold, inputSignals, outputSignals, gates, fireCallbacks, stateChangeCallbacks>>

\* Neuron::processSignals, lines 262-264: the processed signals are stored.
ProcStore(t) ==
    LET f == Top(t)
    IN  /\ f.k = "proc" /\ f.pc = "store"
        /\ outputSignals' = [outputSignals EXCEPT ![f.self] = @ \o f.processed]
        /\ stack' = Pop(t)
        /\ UNCHANGED <<state, threshold, potential, inputSignals, gates,
                       fireCallbacks, stateChangeCallbacks, events>>

\* Neuron::fire, lines 268-277: the default signal, then the loop begins.
FireStart(t) ==
    LET f == Top(t)
        o == f.self
    IN  /\ f.k = "fire" /\ f.pc = "start"
        /\ outputSignals' = IF outputSignals[o] = <<>>
                            THEN [outputSignals EXCEPT ![o] = <<defaultSignal(o, potential[o])>>]
                            ELSE outputSignals
        /\ \E q \in Orders(getOutputs(CurE, o)) :
              stack' = SetTop(t, [f EXCEPT !.pc = "loop", !.ts = q, !.j = 1])
        /\ UNCHANGED <<state, threshold, potential, inputSignals, gates,
                       fireCallbacks, stateChangeCallbacks, events>>

\* Neuron::fire, lines 277-307: one weighted copy is delivered with
\* target->receiveSignal, which buffers it and calls processSignals.
FireDeliver(t) ==
    LET f == Top(t)
        o == f.self
    IN  /\ f.k = "fire" /\ f.pc = "loop"
        /\ f.ts # <<>> /\ f.j <= Len(outputSignals[o])
        /\ Len(stack[t]) < MaxDepth
        /\ LET b == Head(f.ts)
               wsig == weightedCopy(outputSignals[o][f.j], connections[o][b])
           IN  /\ inputSignals' = [inputSignals EXCEPT ![b] = Append(@, wsig)]
               /\ events' = Append(events, Event("deliver", o, b, wsig.data))
               /\ stack' = SetTopPush(t, [f EXCEPT !.j = f.j + 1], ProcFrame(b))
        /\ UNCHANGED <<state, threshold, potential, outputSignals, gates, fireCallbacks, stateChangeCallbacks>>

\* Neuron::fire, lines 277-279 and 308: the loops advance to the next target,
\* or end with every delivery made; the event "fire" records the potential
\* the neuron fired with.
\* A loop that is left with targets still to be served.
loopDone_early(ts) == TRUE

\* Neuron::fire, line 277: the range-for over connections has reached the end.
loopDone(ts) == ts = <<>>

FireNext(t) ==
    LET f == Top(t)
    IN  /\ f.k = "fire" /\ f.pc = "loop"
        /\ \/ /\ f.ts # <<>> /\ f.j > Len(outputSignals[f.self])
              /\ stack' = SetTop(t, [f EXCEPT !.ts = Tail(f.ts), !.j = 1])
              /\ UNCHANGED events
           \/ /\ loopDone(f.ts)
              /\ stack' = SetTop(t, [f EXCEPT !.pc = "callbacks", !.j = 1])
              /\ events' = Append(events, Event("fire", f.self, Null, potential[f.self]))
        /\ UNCHANGED NeuronVars

\* What a registered callback does when it is invoked: it only observes, or
\* it calls processSignals() on the network.  (A callback may also throw,
\* the kind "throw", or call getNeuron on the network, the kind "getNeuron";
\* only the callers that say so register these.)
CallbackKinds == {"observe", "reenter"}

\* A call of Network::processSignals about to test the flag.
NetFrame == Frame("net", Null, "exchange", <<>>, <<>>, 0)

\* A call of Network::getNeuron about to lock neuronMutex.
GetNeuronFrame == Frame("getNeuron", Null, "lock", <<>>, <<>>, 0)

\* A callback that throws: no frame of the engine between the callback and
\* the caller has a handler (the two try blocks of neuron.cpp enclose only
\* the std::stof calls), so every call of thread t is left at once, with
\* nothing undone and nothing after the call site executed.
Unwind(t) == [stack EXCEPT ![t] = <<>>]

\* Neuron::fire, lines 310-312: the next fire callback is invoked, or fire()
\* returns when each has been.
FireCallbacks(t) ==
    LET f == Top(t)
        o == f.self
    IN  /\ f.k = "fire" /\ f.pc = "callbacks"
        /\ IF f.j <= Len(fireCallbacks[o])
           THEN /\ Len(stack[t]) < MaxDepth
                /\ events' = Append(events, Event("listener", o, Null, f.j))
                /\ stack' = CASE fireCallbacks[o][f.j] = "reenter" ->
                                    SetTopPush(t, [f EXCEPT !.j = f.j + 1], NetFrame)
                               [] fireCallbacks[o][f.j] = "throw" -> Unwind(t)
                               [] fireCallbacks[o][f.j] = "getNeuron" ->
                                    SetTopPush(t, [f EXCEPT !.j = f.j + 1], GetNeuronFrame)
                               [] OTHER -> SetTop(t, [f EXCEPT !.j = f.j + 1])
           ELSE /\ stack' = Pop(t)
                /\ UNCHANGED events
        /\ UNCHANGED NeuronVars

\* One step of the engine on thread t.
NeuronStep(t) ==
    /\ stack[t] # <<>>
    /\ \/ ProcEnter(t)
       \/ ProcRefractory(t)
       \/ ProcResting(t)
       \/ ProcStore(t)
       \/ FireStart(t)
       \/ FireDeliver(t)
       \/ FireNext(t)
       \/ FireCallbacks(t)
    /\ UNCHANGED <<EdgeVars, NetVars, last, prev, stimuli, passes, signals>>

\* ------------------------------------------------- the caller and neurons

\* What the caller can tell about every neuron just before a call.
Snapshot ==
    [state |-> state, potential |-> potential,
     buffered |-> [o \in Objs |-> Len(inputSignals[o])],
     stored |-> [o \in Objs |-> Len(outputSignals[o])]]

\* o->receiveSignal(sig) by thread t, the signal not null: the signal is
\* buffered and processSignals is entered (Neuron::receiveSignal).
ReceiveSignal(t, o, sig) ==
    /\ stack[t] = <<>>
    /\ inputSignals' = [inputSignals EXCEPT ![o] = Append(@, sig)]
    /\ stack' = [stack EXCEPT ![t] = <<ProcFrame(o)>>]
    /\ events' = <<>>
    /\ stimuli' = stimuli + 1
    /\ passes' = passes
    /\ signals' = signals
    /\ last' = [op |-> "receiveSignal", a |-> o, b |-> Null, w |-> 0, ret |-> TRUE,
                sig |-> sig, pre |-> Snapshot]
    /\ prev' = NoCall
    /\ UNCHANGED <<EdgeVars, NetVars, state, threshold, potential, outputSignals,
                   gates, fireCallbacks, stateChangeCallbacks>>

\* o->processSignals() by thread t, with whatever o's buffer holds.
NeuronProcessSignals(t, o) ==
    /\ stack[t] = <<>>
    /\ stack' = [stack EXCEPT ![t] = <<ProcFrame(o)>>]
    /\ events' = <<>>
    /\ stimuli' = stimuli + 1
    /\ last' = [op |-> "processSignals", a |-> o, pre |-> Snapshot]
    /\ prev' = NoCall
    /\ UNCHANGED <<EdgeVars, NetVars, NeuronVars, passes, signals>>

\* The strengths a caller passes to the Synapse operations: in range, below,
\* above, the default argument -1.0f of derive, and NaN.
Strengths == {0, 30, 60, One, 150, -50, -One, NaN}

\* The caller's signals become S by the call c, which touches no neuron and
\* no network.
SetSignals(S, c) ==
    /\ signals' = S
    /\ last' = c
    /\ prev' = NoCall
    /\ UNCHANGED <<EdgeVars, NetVars, NeuronVars, stack, events, stimuli, passes>>

\* std::make_shared<Synapse>(id, type, s)
NewSynapse(s) ==
    /\ Len(signals) < MaxSignals
    /\ SetSignals(Append(signals, newSynapse(s)),
                  [op |-> "Synapse", a |-> Len(signals) + 1, w |-> s])

\* signals[i]->setStrength(s)
SetStrength(i, s) ==
    SetSignals([signals EXCEPT ![i].strength = clampStrength(s)],
               [op |-> "setStrength", a |-> i, w |-> s])

\* signals[i]->derive(d)
Derive(i, d) ==
    /\ Len(signals) < MaxSignals
    /\ SetSignals(Append(signals, derive(signals[i], d)),
                  [op |-> "derive", a |-> i, w |-> d])

\* signals[i]->combine(signals[j]), or combine(nullptr) for j = 0
Combine(i, j) ==
    /\ Len(signals) < MaxSignals
    /\ SetSignals(Append(signals,
                         combine(signals[i], IF j = 0 THEN <<>> ELSE <<signals[j]>>)),
                  [op |-> "combine", a |-> i, w |-> j])

\* The caller lets go of its newest Synapse.
Release ==
    /\ signals # <<>>
    /\ SetSignals(SubSeq(signals, 1, Len(signals) - 1), NoCall)

\* Neuron::setThreshold: the threshold is clamped into [0, 1].
setThresholdValue(v) ==
    LET lo == IF FLt(v, 0) THEN 0 ELSE v
    IN  IF FLt(One, lo) THEN One ELSE lo

\* o->setThreshold(v)
SetThreshold(o, v) ==
    /\ threshold' = [threshold EXCEPT ![o] = setThresholdValue(v)]
    /\ UNCHANGED <<EdgeVars, NetVars, state, potential, inputSignals, outputSignals,
                   gates, fireCallbacks, stateChangeCallbacks, RunVars>>

\* o->setState(st) by the caller: the listeners registered, if any, only
\* observe or look a neuron up, which leaves nothing behind here, where no
\* thread holds the registry lock.
SetState(o, st) ==
    /\ state' = [state EXCEPT ![o] = st]
    /\ UNCHANGED <<EdgeVars, NetVars, threshold, potential, inputSignals, outputSignals,
                   gates, fireCallbacks, stateChangeCallbacks, RunVars>>

\* o->onFire(callback), the callback not empty.
OnFire(o, kind) ==
    /\ Len(fireCallbacks["n1"]) + Len(fireCallbacks["n2"]) + Len(fireCallbacks["n3"])
          + Len(processCallbacks) < MaxListeners
    /\ fireCallbacks' = [fireCallbacks EXCEPT ![o] = Append(@, kind)]
    /\ UNCHANGED <<EdgeVars, NetVars, state, threshold, potential, inputSignals,
                   outputSignals, gates, stateChangeCallbacks, RunVars>>

\* o->onStateChange(callback), the callback not empty.
OnStateChange(o, kind) ==
    /\ Len(stateChangeCallbacks[o]) + Len(fireCallbacks[o]) + Len(processCallbacks)
          < MaxListeners
    /\ stateChangeCallbacks' = [stateChangeCallbacks EXCEPT ![o] = Append(@, kind)]
    /\ UNCHANGED <<EdgeVars, NetVars, state, threshold, potential, inputSignals,
                   outputSignals, gates, fireCallbacks, RunVars>>

\* --------------------------------------------------------- the network pass

\* Network::addInputNeuron / addOutputNeuron: the object joins the list unless
\* it is there already, and the registry unless its id is taken.
addToRegistry(N, o) ==
    IF getNeuron(N, IdOf(o)) = Null THEN [N.neurons EXCEPT ![IdOf(o)] = o] ELSE N.neurons

addInputNeuronNet(N, o) ==
    IF o = Null \/ InSeq(o, N.inputNeurons) THEN N
    ELSE Net(addToRegistry(N, o), Append(N.inputNeurons, o), N.outputNeurons)

addOutputNeuronNet(N, o) ==
    IF o = Null \/ InSeq(o, N.outputNeurons) THEN N
    ELSE Net(addToRegistry(N, o), N.inputNeurons, Append(N.outputNeurons, o))

\* network.addInputNeuron(o)
AddInputNeuron(o) ==
    /\ SetNet(addInputNeuronNet(CurN, o))
    /\ UNCHANGED <<EdgeVars, NeuronVars, RunVars>>

\* network.addOutputNeuron(o)
AddOutputNeuron(o) ==
    /\ SetNet(addOutputNeuronNet(CurN, o))
    /\ UNCHANGED <<EdgeVars, NeuronVars, RunVars>>

\* network.onProcess(callback), the callback not empty.
OnProcess(kind) ==
    /\ Len(fireCallbacks["n1"]) + Len(fireCallbacks["n2"]) + Len(fireCallbacks["n3"])
          + Len(processCallbacks) < MaxListeners
    /\ processCallbacks' = Append(processCallbacks, kind)
    /\ UNCHANGED <<EdgeVars, neurons, inputNeurons, outputNeurons, processing,
                   TierVars, NeuronVars, RunVars>>

\* Neuron::Neuron, lines 26-42: the threshold a neuron of the type starts with.
typeThreshold(type) ==
    CASE type = "SENSORY" -> 30
      [] type = "MEMORY" -> 70
      [] type = "REGULATORY" -> 40
      [] OTHER -> DefaultThreshold

\* Neuron::Neuron, lines 44-56: the tag a neuron of the type starts with.
typeTag(type) ==
    CASE type = "SENSORY" -> "sensory"
      [] type = "MEMORY" -> "memory"
      [] type = "REGULATORY" -> "regulatory"
      [] OTHER -> "processing"

\* An object nothing refers to and nothing has touched: it stands for the
\* neuron std::make_shared constructs.
Unused(o) ==
    /\ \A id \in Ids : neurons[id] # o
    /\ ~InSeq(o, inputNeurons) /\ ~InSeq(o, outputNeurons)
    /\ connections[o] = EmptyMap /\ inputs[o] = <<>>
    /\ \A a \in Objs : ~HasEdge(CurE, a, o)
    /\ state[o] = "RESTING" /\ potential[o] = 0
    /\ inputSignals[o] = <<>> /\ outputSignals[o] = <<>>
    /\ gates[o] = <<>> /\ fireCallbacks[o] = <<>>

\* Network::createNeuron: the registered neuron when the id is taken, the new
\* neuron otherwise.
createNeuronRet(N, id, fresh) ==
    IF getNeuron(N, id) # Null THEN getNeuron(N, id) ELSE fresh

\* A factory that registers a new neuron whether or not the id is taken.
createNeuronNet_replace(N, id, fresh) ==
    Net([N.neurons EXCEPT ![id] = fresh], N.inputNeurons, N.outputNeurons)

createNeuronNet(N, id, fresh) ==
    IF getNeuron(N, id) # Null THEN N
    ELSE Net([N.neurons EXCEPT ![id] = fresh], N.inputNeurons, N.outputNeurons)

\* The object std::make_shared<Neuron>(id, type) would return: one with the id
\* that nothing refers to, none when every object with the id is in use.
makeShared(id) ==
    IF \E o \in Objs : IdOf(o) = id /\ Unused(o)
    THEN CHOOSE o \in Objs : IdOf(o) = id /\ Unused(o)
    ELSE Null

\* network.createNeuron(id, type)
CreateNeuron(id, type) ==
    LET had   == getNeuron(CurN, id)
        fresh == makeShared(id)
        N     == createNeuronNet(CurN, id, fresh)
    IN  /\ had # Null \/ fresh # Null
        /\ neurons' = N.neurons
        /\ inputNeurons' = N.inputNeurons
        /\ outputNeurons' = N.outputNeurons
        /\ threshold' = IF had # Null THEN threshold
                        ELSE [threshold EXCEPT ![fresh] = typeThreshold(type)]
        /\ tags' = IF had # Null THEN tags ELSE [tags EXCEPT ![fresh] = {typeTag(type)}]
        /\ metadata' = IF had # Null THEN metadata ELSE [metadata EXCEPT ![fresh] = {}]
        /\ UNCHANGED <<processing, processCallbacks, focusedNeuronId, patterns>>
        /\ UNCHANGED <<EdgeVars, state, potential, inputSignals, outputSignals,
                       gates, fireCallbacks, stateChangeCallbacks, RunVars>>

\* Network::getAllNeurons: the registered objects, in one of the orders the
\* unordered_map may list them.
getAllNeurons(N) == Orders({N.neurons[id] : id \in Ids} \ {Null})

\* An exchange that never reports a pass in flight.
exchange_blind(flag, v) == [old |-> FALSE, new |-> v]

\* An exchange that reads the flag without writing it.
exchange_noStore(flag, v) == [old |-> flag, new |-> flag]

\* std::atomic<bool>::exchange(v): what the call returns and what the flag
\* holds afterwards.
exchange(flag, v) == [old |-> flag, new |-> v]

\* Thread t is inside a pass: past the flag, before the return.
InPass(t) == \E i \in DOMAIN stack[t] : stack[t][i].k = "net" /\ stack[t][i].pc # "exchange"

\* The caller's record of a processSignals() call that returned at the flag:
\* the thread, and how deep in its stack the call was made.
Dropped(t) == Call("processSignals", t, Null, Len(stack[t]), FALSE)

\* Network::processSignals, lines 183-188: the flag is exchanged; the call
\* returns when a pass was in flight, and copies the registry otherwise; the
\* log starts afresh with a pass that a caller's own call begins.
NetExchange(t) ==
    LET f == Top(t)
        x == exchange(processing, TRUE)
    IN  /\ f.k = "net" /\ f.pc = "exchange"
        /\ processing' = x.new
        /\ IF x.old
           THEN /\ stack' = Pop(t)
                /\ last' = Dropped(t)
                /\ UNCHANGED events
           ELSE /\ \E q \in getAllNeurons(CurN) :
                      stack' = SetTop(t, [f EXCEPT !.pc = "inputs", !.ts = q, !.j = 1])
                /\ events' = Append(IF Len(stack[t]) = 1 THEN <<>> ELSE events,
                                    Event("pass", t, Null, 0))
                /\ UNCHANGED last
        /\ UNCHANGED <<neurons, inputNeurons, outputNeurons, processCallbacks, TierVars,
                       NeuronVars>>

\* Network::processSignals, lines 191-193: the input neurons, in list order.
NetInputs(t) ==
    LET f == Top(t)
    IN  /\ f.k = "net" /\ f.pc = "inputs"
        /\ IF f.j <= Len(inputNeurons)
           THEN /\ Len(stack[t]) < MaxDepth
                /\ events' = Append(events, Event("process", inputNeurons[f.j], Null, 0))
                /\ stack' = SetTopPush(t, [f EXCEPT !.j = f.j + 1],
                                       ProcFrame(inputNeurons[f.j]))
           ELSE /\ stack' = SetTop(t, [f EXCEPT !.pc = "others", !.j = 1])
                /\ UNCHANGED events
        /\ UNCHANGED <<NetVars, NeuronVars, last>>

\* A middle loop that skips the input neurons only.
skipped_inputsOnly(N, o) == InSeq(o, N.inputNeurons)

\* Network::processSignals, lines 198-201: the neuron is on a list.
skipped(N, o) == InSeq(o, N.inputNeurons) \/ InSeq(o, N.outputNeurons)

\* Network::processSignals, lines 196-204: every other neuron of the copy.
NetOthers(t) ==
    LET f == Top(t)
    IN  /\ f.k = "net" /\ f.pc = "others"
        /\ IF f.j <= Len(f.ts)
           THEN IF skipped(CurN, f.ts[f.j])
                THEN /\ stack' = SetTop(t, [f EXCEPT !.j = f.j + 1])
                     /\ UNCHANGED events
                ELSE /\ Len(stack[t]) < MaxDepth
                     /\ events' = Append(events, Event("process", f.ts[f.j], Null, 0))
                     /\ stack' = SetTopPush(t, [f EXCEPT !.j = f.j + 1],
                                            ProcFrame(f.ts[f.j]))
           ELSE /\ stack' = SetTop(t, [f EXCEPT !.pc = "outputs", !.j = 1])
                /\ UNCHANGED events
        /\ UNCHANGED <<NetVars, NeuronVars, last>>

\* Network::processSignals, lines 207-209: the output neurons, in list order.
NetOutputs(t) ==
    LET f == Top(t)
    IN  /\ f.k = "net" /\ f.pc = "outputs"
        /\ IF f.j <= Len(outputNeurons)
           THEN /\ Len(stack[t]) < MaxDepth
                /\ events' = Append(events, Event("process", outputNeurons[f.j], Null, 0))
                /\ stack' = SetTopPush(t, [f EXCEPT !.j = f.j + 1],
                                       ProcFrame(outputNeurons[f.j]))
           ELSE /\ stack' = SetTop(t, [f EXCEPT !.pc = "callbacks", !.j = 1])
                /\ UNCHANGED events
        /\ UNCHANGED <<NetVars, NeuronVars, last>>

\* Network::processSignals, lines 212-214: the next process callback is invoked.
NetCallbacks(t) ==
    LET f == Top(t)
    IN  /\ f.k = "net" /\ f.pc = "callbacks"
        /\ IF f.j <= Len(processCallbacks)
           THEN /\ Len(stack[t]) < MaxDepth
                /\ events' = Append(events, Event("observer", t, Null, f.j))
                /\ stack' = CASE processCallbacks[f.j] = "reenter" ->
                                    SetTopPush(t, [f EXCEPT !.j = f.j + 1], NetFrame)
                               [] processCallbacks[f.j] = "throw" -> Unwind(t)
                               [] processCallbacks[f.j] = "getNeuron" ->
                                    SetTopPush(t, [f EXCEPT !.j = f.j + 1], GetNeuronFrame)
                               [] OTHER -> SetTop(t, [f EXCEPT !.j = f.j + 1])
           ELSE /\ stack' = SetTop(t, [f EXCEPT !.pc = "release"])
                /\ UNCHANGED events
        /\ UNCHANGED <<NetVars, NeuronVars, last>>

\* Network::processSignals, line 216: processing = false, and the call returns.
NetRelease(t) ==
    LET f == Top(t)
    IN  /\ f.k = "net" /\ f.pc = "release"
        /\ processing' = FALSE
        /\ stack' = Pop(t)
        /\ UNCHANGED <<neurons, inputNeurons, outputNeurons, processCallbacks, TierVars,
                       NeuronVars, events, last>>

\* One step of Network::processSignals on thread t.
NetStep(t) ==
    /\ stack[t] # <<>>
    /\ \/ NetExchange(t)
       \/ NetInputs(t)
       \/ NetOthers(t)
       \/ NetOutputs(t)
       \/ NetCallbacks(t)
       \/ NetRelease(t)
    /\ UNCHANGED <<EdgeVars, prev, stimuli, passes, signals>>

\* network.processSignals() called by thread t from outside the engine.
ProcessSignals(t) ==
    /\ stack[t] = <<>>
    /\ passes < MaxPasses
    /\ passes' = passes + 1
    /\ stack' = [stack EXCEPT ![t] = <<NetFrame>>]
    /\ UNCHANGED events
    /\ last' = NoCall
    /\ prev' = NoCall
    /\ UNCHANGED <<EdgeVars, NetVars, NeuronVars, stimuli, signals>>

\* What a caller can compare after a pass: every neuron's state, potential,
\* pending and stored signals, and the edges.
Everything ==
    [state |-> state, potential |-> potential, inputSignals |-> inputSignals,
     outputSignals |-> outputSignals, edges |-> CurE]

\* network.processSignals() called by thread t from outside the engine, by a
\* caller that notes what the neurons held just before.
NetworkProcessSignals(t) ==
    /\ stack[t] = <<>>
    /\ passes < MaxPasses
    /\ passes' = passes + 1
    /\ stack' = [stack EXCEPT ![t] = <<NetFrame>>]
    /\ events' = <<>>
    /\ last' = [op |-> "Network::processSignals", a |-> t, pre |-> Everything]
    /\ prev' = NoCall
    /\ UNCHANGED <<EdgeVars, NetVars, NeuronVars, stimuli, signals>>

\* ------------------------------------------------------ the caller and gates

\* A call on neuron o or on one of its gates that leaves o with the gates gs.
GateCall(o, gs, c) ==
    /\ gates' = [gates EXCEPT ![o] = gs]
    /\ last' = c
    /\ prev' = NoCall
    /\ UNCHANGED <<EdgeVars, NetVars, state, threshold, potential, inputSignals,
                   outputSignals, fireCallbacks, stateChangeCallbacks, RunVars>>

\* o->createGate(kind): the factory's gate joins the end of o's gates.
CreateGate(o, kind) ==
    /\ GateCall(o, Append(gates[o], newGate(kind)),
                [op |-> "createGate", a |-> o, kind |-> kind])

\* gate->setThreshold(v) on the i-th gate of o: clamped like a strength.
GateSetThreshold(o, i, v) ==
    GateCall(o, [gates[o] EXCEPT ![i].threshold = clampStrength(v)],
             [op |-> "setThreshold", a |-> i, w |-> v])

\* gate->setActive(b)
GateSetActive(o, i, b) ==
    GateCall(o, [gates[o] EXCEPT ![i].active = b], [op |-> "setActive", a |-> i, w |-> b])

\* gate->adapt(success)
GateAdapt(o, i, success) ==
    GateCall(o, [gates[o] EXCEPT ![i].threshold = adapt(@, success)],
             [op |-> "adapt", a |-> i, success |-> success,
              old |-> gates[o][i].threshold])

\* gate->process(inputs), the inputs being the caller's first n signals.
GateProcess(o, i, n) ==
    GateCall(o, gates[o],
             [op |-> "process", gate |-> gates[o][i], inputs |-> SubSeq(signals, 1, n),
              out |-> process(gates[o][i], SubSeq(signals, 1, n))])

\* ------------------------------------------------- injection and reset

\* A return that reports a delivery whether or not one was made.
injectReturn_true(pc, delivered) == TRUE

\* Network::injectSignal, lines 291-292 and 296-303: true after the named
\* target was served, the flag delivered after the loop over the input layer.
injectReturn(pc, delivered) == pc = "target" \/ delivered = 1

\* network.injectSignal(signal, targetId) by thread t; the pointer signal is
\* <<>> for nullptr and <<signal>> otherwise.  Lines 280-289: the call returns
\* false at once for a null signal and for an id getNeuron does not find;
\* otherwise the named target, or the copy getInputNeurons() returns, is served.
InjectSignal(t, signal, targetId) ==
    LET named == targetId # ""
        miss == signal = <<>> \/ (named /\ getNeuron(CurN, targetId) = Null)
        c == [op |-> "injectSignal", a |-> targetId, sig |-> signal, net |-> CurN,
              pre |-> Snapshot, done |-> miss, ret |-> FALSE]
    IN  /\ stack[t] = <<>>
        /\ stack' = [stack EXCEPT ![t] =
                        IF miss THEN <<>>
                        ELSE <<Frame("inject", Null,
                                     IF named THEN "target" ELSE "inputs", signal,
                                     IF named THEN <<getNeuron(CurN, targetId)>>
                                     ELSE inputNeurons, 0)>>]
        /\ events' = <<>>
        /\ stimuli' = stimuli + 1
        /\ last' = c
        /\ prev' = NoCall
        /\ UNCHANGED <<EdgeVars, NetVars, NeuronVars, passes, signals>>

\* Network::injectSignal, lines 291 and 299-300: the next neuron receives the
\* signal (Neuron::receiveSignal buffers it and enters processSignals); lines
\* 292 and 303: the call returns.
InjectStep(t) ==
    LET f == Top(t)
    IN  /\ stack[t] # <<>>
        /\ f.k = "inject"
        /\ IF f.ts # <<>>
           THEN /\ Len(stack[t]) < MaxDepth
                /\ inputSignals' = [inputSignals EXCEPT
                                       ![Head(f.ts)] = Append(@, f.processed[1])]
                /\ events' = Append(events, Event("inject", Head(f.ts), Null, 0))
                /\ stack' = SetTopPush(t, [f EXCEPT !.ts = Tail(f.ts), !.j = 1],
                                       ProcFrame(Head(f.ts)))
                /\ UNCHANGED last
           ELSE /\ stack' = Pop(t)
                /\ last' = [last EXCEPT !.done = TRUE, !.ret = injectReturn(f.pc, f.j)]
                /\ UNCHANGED <<inputSignals, events>>
        /\ UNCHANGED <<EdgeVars, NetVars, state, threshold, potential, outputSignals,
                       gates, fireCallbacks, stateChangeCallbacks, prev, stimuli, passes, signals>>

\* The neurons the registry holds.
Registered(N) == {N.neurons[id] : id \in Ids} \ {Null}

\* Network::reset, lines 219-225: setState(RESTING) on every registered neuron.
resetState(N, st) == [o \in Objs |-> IF o \in Registered(N) THEN "RESTING" ELSE st[o]]

\* network.reset(), no state-change listener being registered.
Reset ==
    /\ state' = resetState(CurN, state)
    /\ last' = [op |-> "reset", net |-> CurN, pre |-> Snapshot]
    /\ prev' = NoCall
    /\ UNCHANGED <<EdgeVars, NetVars, threshold, potential, inputSignals, outputSignals,
                   gates, fireCallbacks, stateChangeCallbacks, RunVars>>

\* ---------------------------------------------------- the registry lock

\* Thread t owns neuronMutex: it is inside Network::reset, past the
\* construction of the lock_guard in line 220 and before its destruction.
neuronMutexOwnedBy(t) ==
    \E i \in DOMAIN stack[t] : stack[t][i].k = "reset" /\ stack[t][i].pc # "lock"

neuronMutexFree == \A t \in Threads : ~neuronMutexOwnedBy(t)

\* network.reset() called by thread t from outside the engine.
ResetCall(t) ==
    /\ stack[t] = <<>>
    /\ passes < MaxPasses
    /\ passes' = passes + 1
    /\ stack' = [stack EXCEPT ![t] = <<Frame("reset", Null, "lock", <<>>, <<>>, 0)>>]
    /\ events' = <<>>
    /\ last' = [op |-> "reset", net |-> CurN, pre |-> Snapshot]
    /\ prev' = NoCall
    /\ UNCHANGED <<EdgeVars, NetVars, NeuronVars, stimuli, signals>>

\* Network::reset, lines 220-224: the lock is taken, and then each registered
\* neuron, in the order of the unordered_map, gets setState(RESTING);
\* Neuron::setState, lines 72-80: the state is written and then each listener
\* is invoked with the old and the new state.
ResetStep(t) ==
    LET f == Top(t)
    IN  /\ f.k = "reset"
        /\ CASE f.pc = "lock" ->
                  /\ neuronMutexFree
                  /\ \E q \in Orders(Registered(CurN)) :
                        stack' = SetTop(t, [f EXCEPT !.pc = "loop", !.ts = q])
                  /\ UNCHANGED <<state, events>>
             [] f.pc = "loop" /\ f.ts # <<>> ->
                  /\ state' = [state EXCEPT ![Head(f.ts)] = "RESTING"]
                  /\ events' = Append(events, StateChange(Head(f.ts), state[Head(f.ts)],
                                                          "RESTING", potential[Head(f.ts)]))
                  /\ stack' = SetTop(t, [f EXCEPT !.pc = "callbacks", !.self = Head(f.ts),
                                                 !.ts = Tail(f.ts), !.j = 1])
             [] f.pc = "loop" /\ f.ts = <<>> ->
                  /\ stack' = Pop(t)
                  /\ UNCHANGED <<state, events>>
             [] f.pc = "callbacks" /\ f.j <= Len(stateChangeCallbacks[f.self]) ->
                  /\ Len(stack[t]) < MaxDepth
                  /\ events' = Append(events, Event("stateListener", f.self, Null, f.j))
                  /\ stack' = IF stateChangeCallbacks[f.self][f.j] = "getNeuron"
                              THEN SetTopPush(t, [f EXCEPT !.j = f.j + 1], GetNeuronFrame)
                              ELSE SetTop(t, [f EXCEPT !.j = f.j + 1])
                  /\ UNCHANGED state
             [] f.pc = "callbacks" /\ f.j > Len(stateChangeCallbacks[f.self]) ->
                  /\ stack' = SetTop(t, [f EXCEPT !.pc = "loop"])
                  /\ UNCHANGED <<state, events>>
             [] OTHER -> FALSE
        /\ UNCHANGED <<threshold, potential, inputSignals, outputSignals, gates,
                       fireCallbacks, stateChangeCallbacks>>

\* Network::getNeuron, lines 70-77, called by a listener: the lock is taken,
\* the id looked up and the lock released, once no other thread owns the
\* lock.  When the calling thread owns it itself, locking a std::mutex again
\* is undefined: the thread waits for itself for ever, or lock() throws
\* std::system_error, which no frame of the engine catches.
GetNeuronStep(t) ==
    LET f == Top(t)
    IN  /\ f.k = "getNeuron" /\ f.pc = "lock"
        /\ IF neuronMutexOwnedBy(t)
           THEN \/ stack' = SetTop(t, [f EXCEPT !.pc = "deadlock"])
                \/ stack' = Unwind(t)
           ELSE /\ neuronMutexFree
                /\ stack' = Pop(t)
        /\ UNCHANGED <<NeuronVars, events>>

\* One step of thread t in Network::reset or in a listener's getNeuron.
LockStep(t) ==
    /\ stack[t] # <<>>
    /\ \/ ResetStep(t)
       \/ GetNeuronStep(t)
    /\ UNCHANGED <<EdgeVars, NetVars, last, prev, stimuli, passes, signals>>

\* network.connectNeurons(sid, tid, w) called by thread t while other
\* threads call into the registry: the frame keeps the two ids, the weight
\* and the pointers the lookups return.
ConnectNeuronsCall(t, sid, tid, w) ==
    /\ stack[t] = <<>>
    /\ stimuli < MaxStimuli
    /\ stimuli' = stimuli + 1
    /\ stack' = [stack EXCEPT ![t] = <<Frame("connectNeurons", Null, "source", <<>>,
                                             <<sid, tid>>, w)>>]
    /\ last' = [op |-> "connectNeurons", a |-> sid, b |-> tid, w |-> w, done |-> FALSE,
                ret |-> FALSE]
    /\ prev' = NoCall
    /\ UNCHANGED <<EdgeVars, NetVars, NeuronVars, events, passes, signals>>

\* Network::connectNeurons, lines 120-127: getNeuron(sourceId) and
\* getNeuron(targetId), each of which takes and releases neuronMutex, and
\* then, with the lock released, Neuron::connectTo on the pointers found.
ConnectNeuronsStep(t) ==
    LET f == Top(t)
    IN  /\ stack[t] # <<>>
        /\ f.k = "connectNeurons"
        /\ CASE f.pc = "source" ->
                  /\ neuronMutexFree
                  /\ stack' = SetTop(t, [f EXCEPT !.pc = "target",
                                     !.processed = <<getNeuron(CurN, f.ts[1])>>])
                  /\ UNCHANGED <<EdgeVars, last>>
             [] f.pc = "target" ->
                  /\ neuronMutexFree
                  /\ stack' = SetTop(t, [f EXCEPT !.pc = "connectTo",
                                     !.processed = Append(@, getNeuron(CurN, f.ts[2]))])
                  /\ UNCHANGED <<EdgeVars, last>>
             [] f.pc = "connectTo" ->
                  LET source == f.processed[1]
                      target == f.processed[2]
                      found  == source # Null /\ target # Null
                  IN  /\ SetEdges(IF found THEN connectToEdges(CurE, source, target, f.j)
                                  ELSE CurE)
                      /\ stack' = Pop(t)
                      /\ last' = [last EXCEPT !.done = TRUE,
                                     !.ret = found /\ connectToRet(CurE, source, target, f.j)]
             [] OTHER -> FALSE
        /\ UNCHANGED <<NetVars, NeuronVars, events, prev, stimuli, passes, signals>>

\* ------------------------------------------------------- the network tiers

\* ConsciousNetwork: attentionStrength(0.5f).
AttentionStrength == 50

\* SubconsciousNetwork::generateResponse: setStrength(0.8f).
ResponseStrength == 80

\* A tier frame: the override of processSignals at the position pc, with the
\* rule j in hand and the output neurons ts still to be answered.
TierFrame(pc) == Frame("tier", Null, pc, <<>>, <<>>, 1)

\* consciousNetwork.setAttentionFocus(id)
SetAttentionFocus(id) ==
    /\ focusedNeuronId' = id
    /\ UNCHANGED <<EdgeVars, neurons, inputNeurons, outputNeurons, processing,
                   processCallbacks, patterns, tags, metadata, NeuronVars, RunVars>>

\* subconsciousNetwork.addPattern(pattern, response)
AddPattern(pattern, response) ==
    /\ Len(patterns) < MaxPatterns
    /\ patterns' = Append(patterns, [pattern |-> pattern, response |-> response])
    /\ UNCHANGED <<EdgeVars, neurons, inputNeurons, outputNeurons, processing,
                   processCallbacks, focusedNeuronId, tags, metadata, NeuronVars, RunVars>>

\* o->addTag(tag): the tag joins unless it is there already.
AddTag(o, tag) ==
    /\ tags' = [tags EXCEPT ![o] = @ \cup {tag}]
    /\ UNCHANGED <<EdgeVars, neurons, inputNeurons, outputNeurons, processing,
                   processCallbacks, focusedNeuronId, patterns, metadata, NeuronVars,
                   RunVars>>

\* o->setMetadata(key, value)
SetMetadata(o, key) ==
    /\ metadata' = [metadata EXCEPT ![o] = @ \cup {key}]
    /\ UNCHANGED <<EdgeVars, neurons, inputNeurons, outputNeurons, processing,
                   processCallbacks, focusedNeuronId, patterns, tags, NeuronVars, RunVars>>

\* A focus that finds the neuron with the id whether or not it is registered.
focusTarget_unregistered(N, id) ==
    IF \E o \in Objs : IdOf(o) = id THEN CHOOSE o \in Objs : IdOf(o) = id ELSE Null

\* ConsciousNetwork::processSignals, lines 387-389: the neuron the focus id
\* names in the registry, nullptr when the id is empty or not registered.
focusTarget(N, id) == IF id = "" THEN Null ELSE getNeuron(N, id)

\* A matcher that is content with one element of the pattern.
matchesPattern_any(N, T, M, pattern) ==
    \E k \in DOMAIN pattern :
        \E o \in Registered(N) : pattern[k] \in M[o] \/ pattern[k] \in T[o]

\* SubconsciousNetwork::matchesPattern: every item is a metadata key or a tag
\* of some registered neuron; T and M are the neurons' tags and metadata.
matchesPattern(N, T, M, pattern) ==
    \A k \in DOMAIN pattern :
        \E o \in Registered(N) : pattern[k] \in M[o] \/ pattern[k] \in T[o]

\* The override's own call: isProcessing() is tested and the call returns if
\* a pass is in flight (lines 380-382 and 417-419); op names the override.
\* The log starts afresh unless another thread's call is still running.
TierProcessSignals(t, op, pc) ==
    /\ stack[t] = <<>>
    /\ passes < MaxPasses
    /\ passes' = passes + 1
    /\ stack' = [stack EXCEPT ![t] = IF processing THEN <<>> ELSE <<TierFrame(pc)>>]
    /\ events' = IF \A u \in Threads : stack[u] = <<>> THEN <<>> ELSE events
    /\ last' = [op |-> op, focus |-> focusedNeuronId, net |-> CurN, patterns |-> patterns,
                tags |-> tags, metadata |-> metadata, dropped |-> processing]
    /\ prev' = NoCall
    /\ UNCHANGED <<EdgeVars, NetVars, NeuronVars, stimuli, signals>>

\* consciousNetwork.processSignals() by thread t
ConsciousProcessSignals(t) == TierProcessSignals(t, "ConsciousNetwork::processSignals", "focus")

\* subconsciousNetwork.processSignals() by thread t
SubconsciousProcessSignals(t) ==
    TierProcessSignals(t, "SubconsciousNetwork::processSignals", "rules")

\* ConsciousNetwork::processSignals, lines 387-399: the attention signal, with
\* no "strength" payload, is received by the focused neuron, if there is one.
TierFocus(t) ==
    LET f == Top(t)
        o == focusTarget(CurN, focusedNeuronId)
    IN  /\ f.k = "tier" /\ f.pc = "focus"
        /\ IF o # Null
           THEN /\ Len(stack[t]) < MaxDepth
                /\ inputSignals' = [inputSignals EXCEPT
                                       ![o] = Append(@, newSynapse(AttentionStrength))]
                /\ events' = Append(events, Event("attention", o, t, 0))
                /\ stack' = SetTopPush(t, [f EXCEPT !.pc = "base"], ProcFrame(o))
           ELSE /\ stack' = SetTop(t, [f EXCEPT !.pc = "base"])
                /\ UNCHANGED <<inputSignals, events>>

\* SubconsciousNetwork::processSignals, lines 422-426: the next rule is
\* matched; generateResponse begins with a copy of the output list.
TierRules(t) ==
    LET f == Top(t)
    IN  /\ f.k = "tier" /\ f.pc = "rules"
        /\ stack' = SetTop(t,
              IF f.j > Len(patterns) THEN [f EXCEPT !.pc = "base"]
              ELSE IF matchesPattern(CurN, tags, metadata, patterns[f.j].pattern)
                   THEN [f EXCEPT !.pc = "respond", !.ts = outputNeurons]
                   ELSE [f EXCEPT !.j = f.j + 1])
        /\ UNCHANGED <<inputSignals, events>>

\* SubconsciousNetwork::generateResponse, lines 459-470: each output neuron
\* receives a response signal of its own, which has no "strength" payload.
TierRespond(t) ==
    LET f == Top(t)
    IN  /\ f.k = "tier" /\ f.pc = "respond"
        /\ IF f.ts # <<>>
           THEN /\ Len(stack[t]) < MaxDepth
                /\ inputSignals' = [inputSignals EXCEPT
                                       ![Head(f.ts)] = Append(@, newSynapse(ResponseStrength))]
                /\ events' = Append(events, Event("response", Head(f.ts), Null, f.j))
                /\ stack' = SetTopPush(t, [f EXCEPT !.ts = Tail(f.ts)], ProcFrame(Head(f.ts)))
           ELSE /\ stack' = SetTop(t, [f EXCEPT !.pc = "rules", !.j = f.j + 1])
                /\ UNCHANGED <<inputSignals, events>>

\* Lines 402 and 429: Network::processSignals() is called, and the override
\* returns when that has.
TierBase(t) ==
    LET f == Top(t)
    IN  /\ f.k = "tier" /\ f.pc \in {"base", "done"}
        /\ IF f.pc = "base"
           THEN /\ Len(stack[t]) < MaxDepth
                /\ stack' = SetTopPush(t, [f EXCEPT !.pc = "done"], NetFrame)
           ELSE stack' = Pop(t)
        /\ UNCHANGED <<inputSignals, events>>

\* One step of a tier's processSignals on thread t.
TierStep(t) ==
    /\ stack[t] # <<>>
    /\ \/ TierFocus(t)
       \/ TierRules(t)
       \/ TierRespond(t)
       \/ TierBase(t)
    /\ UNCHANGED <<EdgeVars, NetVars, state, threshold, potential, outputSignals, gates,
                   fireCallbacks, stateChangeCallbacks, last, prev, stimuli, passes, signals>>

\* NetworkFactory::createNetwork: the class of the object the returned
\* std::shared_ptr<Network> points to.
createNetwork(type) ==
    CASE type = "CONSCIOUS" -> "ConsciousNetwork"
      [] type = "SUBCONSCIOUS" -> "SubconsciousNetwork"
      [] type = "UNCONSCIOUS" -> "UnconsciousNetwork"
      [] OTHER -> "Network"

\* The function a call handle->processSignals() runs, the handle a
\* std::shared_ptr<Network> to an object of class cls: network.h declares
\* Network::processSignals without "virtual" (line 116), so the call is bound
\* to Network's function whatever the class of the object; the "virtual" of
\* the overrides (lines 235, 268, 313) serves only calls through a pointer to
\* the tier class.
boundThroughNetwork(cls) == "Network"

\* NetworkFactory::createNetwork(type, id)->processSignals() by thread t, on
\* the network of the model.
HandleProcessSignals(t, type) ==
    /\ stack[t] = <<>>
    /\ passes < MaxPasses
    /\ passes' = passes + 1
    /\ stack' = [stack EXCEPT ![t] =
                    IF boundThroughNetwork(createNetwork(type)) = "ConsciousNetwork"
                    THEN IF processing THEN <<>> ELSE <<TierFrame("focus")>>
                    ELSE <<NetFrame>>]
    /\ events' = <<>>
    /\ last' = [op |-> "handle->processSignals", class |-> createNetwork(type),
                focus |-> focusedNeuronId, net |-> CurN]
    /\ prev' = NoCall
    /\ UNCHANGED <<EdgeVars, NetVars, NeuronVars, stimuli, signals>>

\* ---------------------------------------------------------- specifications

\* After construction: no connection, no back-reference, an empty registry.
InitEdges ==
    /\ connections = [a \in Objs |-> EmptyMap]
    /\ inputs = [a \in Objs |-> <<>>]

InitNet ==
    /\ neurons = [id \in Ids |-> Null]
    /\ inputNeurons = <<>>
    /\ outputNeurons = <<>>
    /\ processing = FALSE
    /\ processCallbacks = <<>>

InitHistory ==
    /\ last = NoCall
    /\ prev = NoCall

\* Neuron::Neuron: RESTING, potential 0, the threshold of the neuron's type
\* (the three neurons are PROCESSING neurons), no signal, gate or listener.
InitNeurons ==
    /\ state = [o \in Objs |-> "RESTING"]
    /\ threshold = [o \in Objs |-> DefaultThreshold]
    /\ potential = [o \in Objs |-> 0]
    /\ inputSignals = [o \in Objs |-> <<>>]
    /\ outputSignals = [o \in Objs |-> <<>>]
    /\ gates = [o \in Objs |-> <<>>]
    /\ fireCallbacks = [o \in Objs |-> <<>>]
    /\ stateChangeCallbacks = [o \in Objs |-> <<>>]

InitRun ==
    /\ stack = [t \in Threads |-> <<>>]
    /\ events = <<>>
    /\ stimuli = 0
    /\ passes = 0
    /\ signals = <<>>

\* ConsciousNetwork and SubconsciousNetwork: no focus, no rule; Neuron::Neuron:
\* the type tag and no metadata.
InitTier ==
    /\ focusedNeuronId = ""
    /\ patterns = <<>>
    /\ tags = [o \in Objs |-> {"processing"}]
    /\ metadata = [o \in Objs |-> {}]

Init == InitEdges /\ InitNet /\ InitHistory /\ InitNeurons /\ InitRun /\ InitTier

\* A caller holding the three neurons and making the Neuron edge calls.
EdgeCalls(W) ==
    \/ \E a \in Objs, b \in Objs \cup {Null}, w \in W :
          /\ ConnectTo(a, b, w)
          /\ Record(Call("connectTo", a, b, w, connectToRet(CurE, a, b, w)))
    \/ \E a \in Objs, b \in Objs \cup {Null} :
          /\ DisconnectFrom(a, b)
          /\ Record(Call("disconnectFrom", a, b, 0, disconnectFromRet(CurE, a, b)))
    \/ \E a \in Objs, b \in Objs, w \in W :
          /\ SetConnectionWeight(a, b, w)
          /\ Record(Call("setConnectionWeight", a, b, w, setConnectionWeightRet(CurE, a, b)))

NextEdge == EdgeCalls(EdgeWeights)

SpecEdge == Init /\ [][NextEdge]_vars


\* A caller making the Network registry calls as well as the Neuron edge calls.
NextRegistry ==
    \/ EdgeCalls(RegistryWeights)
    \/ \E o \in Objs \cup {Null} :
          /\ AddNeuron(o)
          /\ Record(Call("addNeuron", o, Null, 0, addNeuronRet(CurN, o)))
    \/ \E id \in Ids :
          /\ RemoveNeuron(id)
          /\ Record(Call("removeNeuron", id, Null, 0, removeNeuronRet(CurN, id)))
    \/ \E sid \in Ids, tid \in Ids, w \in RegistryWeights :
          /\ ConnectNeurons(sid, tid, w)
          /\ Record(Call("connectNeurons", sid, tid, w,
                         connectNeuronsRet(CurN, CurE, sid, tid, w)))
    \/ \E sid \in Ids, tid \in Ids :
          /\ DisconnectNeurons(sid, tid)
          /\ Record(Call("disconnectNeurons", sid, tid, 0,
                         disconnectNeuronsRet(CurN, CurE, sid, tid)))

SpecRegistry == Init /\ [][NextRegistry]_vars

\* The signals the caller hands over: built with the Synapse API alone
\* (strength 0.2 and 0.9, no "strength" payload), or also carrying the
\* strength as the payload text (0.2, 0.9, 0.3), or carrying the text "nan".
Stimuli ==
    {Sig(20, NoData), Sig(90, NoData), Sig(20, 20), Sig(90, 90), Sig(30, 30), Sig(One, NaN)}

\* The weights the caller puts on n1 -> n2: the spec's 0.9, one above 1, one
\* below 0.
PropWeights == {90, 150, -50}

\* A single-threaded caller that first wires n1 -> n2 -> n3 (and n2 -> n1),
\* registers fire listeners and sets n2's threshold, and then stimulates n1,
\* setting n2's state at any time; every call is made between, never during,
\* the engine's runs.
WiringCalls ==
    \/ \E w \in PropWeights : ConnectTo("n1", "n2", w)
    \/ ConnectTo("n2", "n3", 90)
    \/ ConnectTo("n2", "n1", 90)
    \/ \E o \in {"n1", "n2"} : OnFire(o, "observe")
    \/ SetThreshold("n2", 120)

NeuronCalls ==
    \/ stimuli = 0 /\ WiringCalls
    \/ \E st \in {"INHIBITED", "RESTING"} : SetState("n2", st)

\* A set-up call ends the caller's record of the stimulus before it.
Forget ==
    /\ last' = NoCall
    /\ prev' = NoCall

NextNeuron ==
    \/ Idle /\ NeuronCalls /\ Forget
    \/ /\ Idle /\ stimuli < MaxStimuli
       /\ \E sig \in Stimuli : ReceiveSignal("t1", "n1", sig)
    \/ NeuronStep("t1")

SpecNeuron == Init /\ [][NextNeuron]_vars

\* A caller that may close the cycle n1 -> n2 -> n1 before it hands signals
\* to n1, with a branch n2 -> n3 off the cycle.
NextCycle ==
    \/ \E w \in PropWeights : Idle /\ stimuli = 0 /\ ConnectTo("n1", "n2", w) /\ Forget
    \/ \E b \in {"n1", "n3"} : Idle /\ stimuli = 0 /\ ConnectTo("n2", b, 90) /\ Forget
    \/ Idle /\ stimuli = 0 /\ SetThreshold("n2", 120) /\ Forget
    \/ \E st \in {"INHIBITED", "RESTING"} : Idle /\ SetState("n2", st) /\ Forget
    \/ /\ Idle /\ stimuli < MaxStimuli
       /\ \E sig \in {Sig(90, 90), Sig(30, 30), Sig(90, NoData)} :
             ReceiveSignal("t1", "n1", sig)
    \/ NeuronStep("t1")

\* The calling thread keeps running: receiveSignal, processSignals and fire
\* are plain synchronous calls on it, with no lock or wait in between.
FairCycle == Init /\ [][NextCycle]_vars /\ WF_vars(NeuronStep("t1"))

\* Two threads and one network holding n1 (an input neuron) and n2 with the
\* edge n1 -> n2.  The callers register listeners and observers, some of which
\* call processSignals() themselves, park signals in n1 while it is
\* inhibited, and then call processSignals() from both threads.  No thread
\* calls in while another runs a cascade outside a pass.
PassSetUp ==
    \/ AddInputNeuron("n1")
    \/ AddNeuron("n2")
    \/ ConnectTo("n1", "n2", 90)
    \/ \E kind \in CallbackKinds : OnFire("n1", kind)
    \/ \E kind \in CallbackKinds : OnProcess(kind)

PassCalls ==
    \/ stimuli = 0 /\ PassSetUp
    \/ \E st \in {"INHIBITED", "RESTING"} : SetState("n1", st)

NextPass ==
    \/ Idle /\ passes = 0 /\ PassCalls /\ Forget
    \/ /\ Idle /\ passes = 0 /\ stimuli < MaxStimuli
       /\ ReceiveSignal("t1", "n1", Sig(90, 90))
    \/ \E t \in Threads :
          /\ \A u \in Threads : stack[u] # <<>> => stack[u][1].k = "net"
          /\ ProcessSignals(t)
    \/ \E t \in Threads : NeuronStep(t)
    \/ \E t \in Threads : NetStep(t)

SpecPass == Init /\ [][NextPass]_vars

\* A caller that only builds signals: it constructs them, sets their strength
\* and derives and combines new ones from those it holds.
NextSynapse ==
    \/ \E s \in Strengths : NewSynapse(s)
    \/ \E i \in DOMAIN signals, s \in Strengths : SetStrength(i, s)
    \/ \E i \in DOMAIN signals, d \in Strengths : Derive(i, d)
    \/ \E i \in DOMAIN signals, j \in {0} \cup DOMAIN signals : Combine(i, j)
    \/ Release

SpecSynapse == Init /\ [][NextSynapse]_vars

\* One thread running passes over a network with an input layer, an output
\* layer and neurons in neither, with observers that only observe: neurons
\* are listed (an object whose id is taken is listed without being
\* registered), signals are handed to an inhibited input neuron, which is
\* released before the pass.  The network is built before the first signal.
Building == Idle /\ stimuli = 0 /\ passes = 0

NextOrder ==
    \/ \E o \in Objs : Building /\ AddNeuron(o) /\ Forget
    \/ \E o \in {"n1", "n2"} : Building /\ AddInputNeuron(o) /\ Forget
    \/ \E o \in {"n2", "n3"} : Building /\ AddOutputNeuron(o) /\ Forget
    \/ Building /\ ConnectTo("n1", "n2", 90) /\ Forget
    \/ Building /\ OnProcess("observe") /\ Forget
    \/ /\ Idle /\ passes = 0 /\ Forget
       /\ \E st \in {"INHIBITED", "REFRACTORY", "RESTING"} : SetState("n1", st)
    \/ /\ Idle /\ stimuli < MaxStimuli
       /\ ReceiveSignal("t1", "n1", Sig(90, 90))
    \/ ProcessSignals("t1")
    \/ NeuronStep("t1")
    \/ NetStep("t1")

SpecOrder == Init /\ [][NextOrder]_vars

\* What the caller sees of a neuron before removing it: the lists it is on and
\* the neurons it has an edge to or from.
References(o) ==
    [lists |-> {l \in {"input", "output"} :
                  \/ l = "input" /\ InSeq(o, inputNeurons)
                  \/ l = "output" /\ InSeq(o, outputNeurons)},
     outs  |-> IF o = Null THEN {} ELSE getOutputs(CurE, o),
     ins   |-> {a \in Objs : o # Null /\ HasEdge(CurE, a, o)}]

\* The neuron types a caller asks createNeuron for.
Types == {"PROCESSING", "SENSORY"}

\* A caller building a network with its layers: neurons are created by the
\* factory or added from outside, put on the input and output lists, connected
\* and removed.  The caller records the createNeuron and removeNeuron calls.
NextLists ==
    \/ \E o \in Objs : AddNeuron(o) /\ Forget
    \/ \E o \in {"n1", "n2"} : AddInputNeuron(o) /\ Forget
    \/ \E o \in {"n1", "n3"} : AddOutputNeuron(o) /\ Forget
    \/ \E e \in {<<"n1", "n2">>, <<"n2", "n1">>, <<"n3", "n2">>} :
          ConnectTo(e[1], e[2], 70) /\ Forget
    \/ \E st \in {"INHIBITED", "RESTING"} : SetState("n1", st) /\ Forget
    \/ \E id \in Ids, type \in Types :
          /\ CreateNeuron(id, type)
          /\ last' = [op |-> "createNeuron", a |-> id, b |-> type,
                      had |-> getNeuron(CurN, id),
                      ret |-> createNeuronRet(CurN, id, makeShared(id))]
          /\ prev' = NoCall
    \/ \E id \in Ids :
          /\ RemoveNeuron(id)
          /\ last' = [op |-> "removeNeuron", a |-> id, b |-> getNeuron(CurN, id),
                      refs |-> References(getNeuron(CurN, id)),
                      ret |-> removeNeuronRet(CurN, id)]
          /\ prev' = NoCall

SpecLists == Init /\ [][NextLists]_vars


\* One thread and a network whose input layer the caller builds first (an
\* object whose id is taken is listed without being registered).  The caller
\* then injects signals, null or not, by id or into the input layer, inhibits
\* and releases n1, and resets the network, always between the engine's runs.
InjectedSignals == {<<>>, <<Sig(90, 90)>>, <<Sig(30, 30)>>}

NextInject ==
    \/ \E o \in Objs : Building /\ AddNeuron(o) /\ Forget
    \/ \E o \in Objs : Building /\ AddInputNeuron(o) /\ Forget
    \/ Building /\ ConnectTo("n1", "n2", 90) /\ Forget
    \/ \E st \in {"INHIBITED", "RESTING"} : Idle /\ SetState("n1", st) /\ Forget
    \/ /\ Idle /\ stimuli < MaxStimuli
       /\ \E signal \in InjectedSignals, targetId \in Ids \cup {""} :
             InjectSignal("t1", signal, targetId)
    \/ Idle /\ Reset
    \/ NeuronStep("t1")
    \/ InjectStep("t1")

SpecInject == Init /\ [][NextInject]_vars

\* A caller that creates a gate on n1, sets and adapts its threshold, builds
\* signals with strengths in [0, 1] and calls process on lists of them.
GateKinds == {"OR", "XOR", "AND"}
GateThresholds == {0, 5, 50, 95, One, 150, -50}
GateStrengths == {0, 20, 50, 80, One}

NextGate ==
    \/ \E kind \in GateKinds : gates["n1"] = <<>> /\ CreateGate("n1", kind)
    \/ \E i \in DOMAIN gates["n1"], v \in GateThresholds : GateSetThreshold("n1", i, v)
    \/ \E i \in DOMAIN gates["n1"], success \in BOOLEAN : GateAdapt("n1", i, success)
    \/ \E s \in GateStrengths : NewSynapse(s)
    \/ Release
    \/ \E i \in DOMAIN gates["n1"], n \in 0..Len(signals) : GateProcess("n1", i, n)

SpecGate == Init /\ [][NextGate]_vars

\* A caller that gives n1 up to MaxGates gates, switches them on and off, and
\* hands n1 signals: with and without the "strength" payload, with a negative
\* number, with text std::stof rejects and with the text "nan"; n1 is
\* inhibited to let signals gather in its buffer, and released; the caller
\* also calls processSignals on n1 itself.
GatedKinds == {"THRESHOLD", "NOT", "XOR"}
GatedStimuli ==
    {Sig(20, 20), Sig(80, 80), Sig(80, NoData), Sig(50, Junk), Sig(20, -50), Sig(One, NaN)}

NextGated ==
    \/ \E kind \in GatedKinds :
          Building /\ Len(gates["n1"]) < MaxGates /\ CreateGate("n1", kind)
    \/ \E i \in DOMAIN gates["n1"], b \in BOOLEAN : Building /\ GateSetActive("n1", i, b)
    \/ \E st \in {"INHIBITED", "RESTING"} : Idle /\ SetState("n1", st) /\ Forget
    \/ /\ Idle /\ stimuli < MaxStimuli
       /\ \E sig \in GatedStimuli : ReceiveSignal("t1", "n1", sig)
    \/ Idle /\ stimuli < MaxStimuli /\ NeuronProcessSignals("t1", "n1")
    \/ NeuronStep("t1")

SpecGated == Init /\ [][NextGated]_vars

\* One thread and a conscious network of n1 (an input neuron) and n2 with the
\* edge n1 -> n2: the caller sets the focus to a registered id, to an id that
\* is not registered, or to none, inhibits and releases n1, and calls the
\* network's processSignals.
NextConscious ==
    \/ \E o \in {"n1", "n2"} : Building /\ AddNeuron(o) /\ Forget
    \/ Building /\ AddInputNeuron("n1") /\ Forget
    \/ Building /\ ConnectTo("n1", "n2", 90) /\ Forget
    \/ \E id \in Ids \cup {""} : Idle /\ SetAttentionFocus(id) /\ Forget
    \/ \E st \in {"INHIBITED", "RESTING"} : Idle /\ SetState("n1", st) /\ Forget
    \/ ConsciousProcessSignals("t1")
    \/ TierStep("t1")
    \/ NeuronStep("t1")
    \/ NetStep("t1")

SpecConscious == Init /\ [][NextConscious]_vars

\* The patterns of the subconscious scenario: empty, a label the caller may
\* give, that label with the type tag, and a label nobody has.
Patterns == {<<>>, <<"alert">>, <<"processing", "alert">>, <<"zz">>}

\* One thread and a subconscious network of n1, n2 and n3 with an output
\* layer: the caller tags neurons, sets metadata, adds rules, and calls the
\* network's processSignals.
NextSubconscious ==
    \/ \E o \in {"n1", "n2"} : Building /\ AddNeuron(o) /\ Forget
    \/ \E o \in {"n2", "n3"} : Building /\ AddOutputNeuron(o) /\ Forget
    \/ \E o \in {"n1", "n3"} : Building /\ AddTag(o, "alert") /\ Forget
    \/ Building /\ SetMetadata("n2", "alert") /\ Forget
    \/ \E p \in Patterns : Building /\ AddPattern(p, <<"r">>) /\ Forget
    \/ SubconsciousProcessSignals("t1")
    \/ TierStep("t1")
    \/ NeuronStep("t1")
    \/ NetStep("t1")

SpecSubconscious == Init /\ [][NextSubconscious]_vars

\* One thread and a network of an input neuron n1, a neuron n2 on neither
\* list and an output neuron n3, with the edge n1 -> n2, a fire listener and
\* observers that only observe.  The caller hands signals to n1, which it may
\* have inhibited, lowers thresholds to 0 and runs passes, each one with the
\* buffers empty or not.
NextQuiet ==
    \/ Building /\ AddInputNeuron("n1") /\ Forget
    \/ Building /\ AddNeuron("n2") /\ Forget
    \/ Building /\ AddOutputNeuron("n3") /\ Forget
    \/ Building /\ ConnectTo("n1", "n2", 90) /\ Forget
    \/ Building /\ OnProcess("observe") /\ Forget
    \/ Building /\ OnFire("n1", "observe") /\ Forget
    \/ Idle /\ passes = 0 /\ SetThreshold("n1", 0) /\ Forget
    \/ \E st \in {"INHIBITED", "RESTING"} : Idle /\ SetState("n1", st) /\ Forget
    \/ /\ Idle /\ stimuli < MaxStimuli
       /\ ReceiveSignal("t1", "n1", Sig(30, 30))
    \/ NetworkProcessSignals("t1")
    \/ NeuronStep("t1")
    \/ NetStep("t1")

SpecQuiet == Init /\ [][NextQuiet]_vars

\* A caller that wires some of the edges n1 -> n2, n2 -> n3 and n1 -> n3,
\* which close no cycle, registers a fire listener that only observes, and
\* then hands signals to n1 and n2, inhibiting and releasing n2 in between.
NextAcyclic ==
    \/ Idle /\ stimuli = 0 /\ ConnectTo("n1", "n2", 90) /\ Forget
    \/ \E a \in {"n1", "n2"} : Idle /\ stimuli = 0 /\ ConnectTo(a, "n3", 90) /\ Forget
    \/ Idle /\ stimuli = 0 /\ fireCallbacks["n3"] = <<>> /\ OnFire("n3", "observe") /\ Forget
    \/ \E st \in {"INHIBITED", "RESTING"} : Idle /\ SetState("n2", st) /\ Forget
    \/ /\ Idle /\ stimuli < MaxStimuli
       /\ \E o \in {"n1", "n2"}, sig \in {Sig(90, 90), Sig(30, 30)} :
             ReceiveSignal("t1", o, sig)
    \/ NeuronStep("t1")

\* The calling thread keeps running the cascade it started.
FairAcyclic == Init /\ [][NextAcyclic]_vars /\ WF_vars(NeuronStep("t1"))

\* One thread and a network with the input neuron n1, on which the caller
\* registers fire listeners, and observers, that return or throw; the caller
\* catches what a call throws and goes on.  Signals are parked in n1 while it
\* is inhibited, so that it fires inside a pass.
NextThrow ==
    \/ Building /\ AddInputNeuron("n1") /\ Forget
    \/ \E kind \in {"observe", "throw"} : Building /\ OnFire("n1", kind) /\ Forget
    \/ \E kind \in {"observe", "throw"} : Building /\ OnProcess(kind) /\ Forget
    \/ \E st \in {"INHIBITED", "RESTING"} : Idle /\ SetState("n1", st) /\ Forget
    \/ /\ Idle /\ stimuli < MaxStimuli
       /\ ReceiveSignal("t1", "n1", Sig(90, 90))
    \/ ProcessSignals("t1")
    \/ NeuronStep("t1")
    \/ NetStep("t1")

SpecThrow == Init /\ [][NextThrow]_vars

\* One thread and a network of n1 and n2.  The caller registers state-change
\* listeners, fire listeners and observers that only observe or that look a
\* neuron up with getNeuron, inhibits neurons, hands n1 a signal, and calls
\* reset() and processSignals().
NextLock ==
    \/ \E o \in {"n1", "n2"} : Building /\ AddNeuron(o) /\ Forget
    \/ \E kind \in {"observe", "getNeuron"} :
          Building /\ OnStateChange("n1", kind) /\ Forget
    \/ \E kind \in {"observe", "getNeuron"} : Building /\ OnFire("n1", kind) /\ Forget
    \/ \E kind \in {"observe", "getNeuron"} : Building /\ OnProcess(kind) /\ Forget
    \/ \E o \in {"n1", "n2"} : Idle /\ SetState(o, "INHIBITED") /\ Forget
    \/ Idle /\ stimuli < MaxStimuli /\ ReceiveSignal("t1", "n1", Sig(90, 90))
    \/ ResetCall("t1")
    \/ ProcessSignals("t1")
    \/ NeuronStep("t1")
    \/ NetStep("t1")
    \/ LockStep("t1")

SpecLock == Init /\ [][NextLock]_vars

\* Two threads and a conscious network whose input neuron n1 has the focus:
\* thread t1 calls processSignals, and thread t2 calls it once as well, at
\* any moment from then on.
NextRace ==
    \/ Building /\ AddInputNeuron("n1") /\ Forget
    \/ \E id \in {"a", "zz"} : Building /\ SetAttentionFocus(id) /\ Forget
    \/ \E st \in {"INHIBITED", "RESTING"} : Building /\ SetState("n1", st) /\ Forget
    \/ passes = 0 /\ ConsciousProcessSignals("t1")
    \/ passes = 1 /\ ConsciousProcessSignals("t2")
    \/ \E t \in Threads : TierStep(t)
    \/ \E t \in Threads : NeuronStep(t)
    \/ \E t \in Threads : NetStep(t)

SpecRace == Init /\ [][NextRace]_vars

\* One thread and a network made by createNetwork(CONSCIOUS), with the input
\* neuron n1 and n2 and the edge n1 -> n2: the caller sets the focus on the
\* object and calls processSignals through the factory's handle or, having
\* cast the handle down, on the ConsciousNetwork itself.
NextFactory ==
    \/ \E o \in {"n1", "n2"} : Building /\ AddNeuron(o) /\ Forget
    \/ Building /\ AddInputNeuron("n1") /\ Forget
    \/ Building /\ ConnectTo("n1", "n2", 90) /\ Forget
    \/ \E id \in Ids \cup {""} : Idle /\ SetAttentionFocus(id) /\ Forget
    \/ \E st \in {"INHIBITED", "RESTING"} : Idle /\ SetState("n1", st) /\ Forget
    \/ HandleProcessSignals("t1", "CONSCIOUS")
    \/ ConsciousProcessSignals("t1")
    \/ TierStep("t1")
    \/ NeuronStep("t1")
    \/ NetStep("t1")

SpecFactory == Init /\ [][NextFactory]_vars

\* Two threads and the registry: thread t1 calls connectNeurons, one step at
\* a time, while thread t2 adds and removes neurons at any moment; every
\* edge is made by connectNeurons.
NextAtomic ==
    \/ \E o \in {"n1", "n2"} : AddNeuron(o) /\ UNCHANGED <<last, prev>>
    \/ \E id \in {"a", "b"} : RemoveNeuron(id) /\ UNCHANGED <<last, prev>>
    \/ \E sid \in Ids, tid \in Ids, w \in EdgeWeights : ConnectNeuronsCall("t1", sid, tid, w)
    \/ ConnectNeuronsStep("t1")

SpecAtomic == Init /\ [][NextAtomic]_vars

\* ------------------------------------------------------------------ claims

\* How many events of kind e neuron (or thread) a has in the log.
CountEvents(e, a) ==
    Cardinality({i \in DOMAIN events : events[i].e = e /\ events[i].a = a})

\* The variables of the program, as opposed to the caller's bookkeeping.
ProgramVars == <<EdgeVars, NetVars, NeuronVars>>

\* Thread t is about to test the flag from inside its own pass.
Nested(t) ==
    /\ stack[t] # <<>>
    /\ Top(t).k = "net" /\ Top(t).pc = "exchange"
    /\ InPass(t)

\* C1: a call of Network::processSignals made from inside a pass of the same
\* network (from an observer or a fire listener) returns at once, changing
\* nothing of the network or its neurons and invoking no observer, so that the
\* outer pass goes on from where it was; and the flag is set exactly while
\* some thread is inside a pass, so the outer pass still ends by clearing it.
C1_NestedPassIsNoOp ==
    /\ [][\A t \in Threads :
            (Nested(t) /\ NetStep(t)) =>
                /\ stack' = Pop(t)
                /\ UNCHANGED <<ProgramVars, events>>]_vars
    /\ [](processing <=> \E t \in Threads : InPass(t))

\* A pass has finished in which a fire listener called processSignals(), the
\* nested call was dropped, and an observer was invoked afterwards.
C1_Witness ==
    /\ Idle /\ ~processing
    /\ last.op = "processSignals" /\ ~last.ret /\ last.w > 1
    /\ \E i \in DOMAIN events, j \in DOMAIN events :
          /\ i < j
          /\ events[i].e = "listener"
          /\ fireCallbacks[events[i].a][events[i].v] = "reenter"
          /\ events[j].e = "observer" /\ events[j].a = last.a

\* C2: at most one thread is inside a pass at any time, and a call that finds
\* another thread's pass in flight returns having changed nothing of the
\* network or its neurons; it leaves nothing behind that could run later.
C2_OnePassAtATime ==
    /\ [](Cardinality({t \in Threads : InPass(t)}) <= 1)
    /\ [][\A t \in Threads :
            (/\ stack[t] # <<>>
             /\ Top(t).k = "net" /\ Top(t).pc = "exchange"
             /\ \E u \in Threads \ {t} : InPass(u)
             /\ NetStep(t)) =>
                /\ stack' = Pop(t)
                /\ UNCHANGED <<ProgramVars, events>>]_vars

\* Thread t1 is inside a pass and the outermost call of thread t2 has just
\* been dropped.
C2_Witness ==
    /\ InPass("t1") /\ stack["t2"] = <<>>
    /\ last = Call("processSignals", "t2", Null, 1, FALSE)

\* The only edge is a -> b, with a weight in [0, 1].
OnlyEdge(a, b) ==
    /\ getOutputs(CurE, a) = {b}
    /\ \A o \in Objs \ {a} : getOutputs(CurE, o) = {}
    /\ connections[a][b] >= 0 /\ connections[a][b] <= One

\* The values the deliveries from a to b carried, in order.
RECURSIVE DeliveredIn(_, _, _)
DeliveredIn(es, a, b) ==
    IF es = <<>> THEN <<>>
    ELSE IF Head(es).e = "deliver" /\ Head(es).a = a /\ Head(es).b = b
         THEN <<Head(es).v>> \o DeliveredIn(Tail(es), a, b)
         ELSE DeliveredIn(Tail(es), a, b)

Delivered(a, b) == DeliveredIn(events, a, b)

\* C3: with a -> b the only edge, weight w, and every neuron RESTING at
\* potential 0, receiveSignal on a with one signal of strength s >= threshold(a)
\* fires a with potential s, delivers to b one signal of strength s * w, and
\* b fires exactly once when s * w >= threshold(b).
C3_EndToEnd ==
    \A a \in Objs, b \in Objs :
        (/\ Idle /\ last.op = "receiveSignal" /\ last.a = a
         /\ OnlyEdge(a, b)
         /\ \A o \in Objs : last.pre.state[o] = "RESTING" /\ last.pre.potential[o] = 0
         /\ last.sig.strength >= threshold[a])
        => LET s == last.sig.strength
               w == connections[a][b]
           IN  /\ \E i \in DOMAIN events : events[i] = Event("fire", a, Null, s)
               /\ CountEvents("fire", a) = 1
               /\ Delivered(a, b) = <<FMul(s, w)>>
               /\ FMul(s, w) >= threshold[b] => CountEvents("fire", b) = 1

\* C4: a RESTING neuron with threshold 0.5, potential 0 and nothing buffered
\* that receives one signal of strength 0.2 does not fire: it is RESTING, no
\* fire listener was invoked and nothing was delivered to its targets.
C4_WeakSignalDoesNotFire ==
    (/\ Idle /\ last.op = "receiveSignal"
     /\ last.pre.state[last.a] = "RESTING"
     /\ last.pre.potential[last.a] = 0
     /\ last.pre.buffered[last.a] = 0
     /\ threshold[last.a] = 50
     /\ last.sig.strength = 20)
    => /\ state[last.a] = "RESTING"
       /\ CountEvents("fire", last.a) = 0
       /\ CountEvents("listener", last.a) = 0
       /\ CountEvents("deliver", last.a) = 0

\* The neurons that a is connected to by one edge or more.
RECURSIVE Reach(_, _)
Reach(S, n) ==
    IF n = 0 THEN S
    ELSE Reach(S \cup UNION {getOutputs(CurE, x) : x \in S}, n - 1)

NoPathBack(a) == a \notin Reach(getOutputs(CurE, a), Cardinality(Objs))

\* The receiveSignal just returned was made on a RESTING neuron with no path
\* back to it and raised its potential to its threshold or above.
Crossed ==
    /\ Idle /\ last.op = "receiveSignal"
    /\ last.pre.state[last.a] = "RESTING"
    /\ last.pre.buffered[last.a] = 0
    /\ NoPathBack(last.a)
    /\ LET p == potentialAfter(last.pre.potential[last.a],
                               processedOf(gates[last.a], <<last.sig>>))
       IN  p # NaN /\ p >= threshold[last.a]

\* C5: when a receiveSignal on a RESTING neuron with no path back to it raises
\* the potential to the threshold or above, each registered fire listener has
\* been invoked exactly once when the call returns, and the neuron is RESTING
\* with potential 0.
C5_FireListenersOncePerCrossing ==
    Crossed =>
        /\ \A i \in 1..Len(fireCallbacks[last.a]) :
              Cardinality({k \in DOMAIN events :
                              events[k] = Event("listener", last.a, Null, i)}) = 1
        /\ state[last.a] = "RESTING"
        /\ potential[last.a] = 0

\* Two signals raised the potential to exactly the threshold or above it, with
\* two listeners registered and a target downstream.
C5_Witness ==
    /\ Crossed
    /\ Len(fireCallbacks[last.a]) = 2
    /\ last.pre.potential[last.a] > 0
    /\ getOutputs(CurE, last.a) # {}

\* C6: every neuron's potential is a number within [0, 1].
C6_PotentialInUnitInterval ==
    \A o \in Objs : potential[o] # NaN /\ potential[o] >= 0 /\ potential[o] <= One

\* C7: connectTo(A,B,w1) followed by connectTo(A,B,w2), A and B two distinct
\* neurons, leaves one edge A->B whose weight is w2, with A exactly once in
\* B's incoming list, and both calls return true.
C7_ReconnectOverwritesWeight ==
    (last.op = "connectTo" /\ prev.op = "connectTo" /\ last.b # Null /\ last.b # last.a)
        => /\ prev.ret /\ last.ret
           /\ HasEdge(CurE, last.a, last.b)
           /\ getConnectionWeight(CurE, last.a, last.b) = last.w
           /\ CountIn(getInputs(CurE, last.b), last.a) = 1

\* connectTo(A,B,0.7) then connectTo(A,B,0.4) has happened.
C7_Witness ==
    /\ last.op = "connectTo" /\ prev.op = "connectTo"
    /\ last.b # Null /\ last.b # last.a
    /\ prev.w = 70 /\ last.w = 40
    /\ getConnectionWeight(CurE, last.a, last.b) = 40

\* C8: disconnectFrom(A,B) on an existing edge removes B from A's outputs and A
\* from B's inputs in that one call and returns true; with no edge A->B (or a
\* null target) it returns false and changes no neuron's edges.
C8_DisconnectBothSidesOrNothing ==
    [][(last'.op = "disconnectFrom" /\ DisconnectFrom(last'.a, last'.b)) =>
          IF HasEdge(CurE, last'.a, last'.b)
          THEN /\ last'.ret
               /\ last'.b \notin getOutputs(Edges(connections', inputs'), last'.a)
               /\ ~InSeq(last'.a, getInputs(Edges(connections', inputs'), last'.b))
          ELSE /\ ~last'.ret
               /\ UNCHANGED EdgeVars]_vars

\* A disconnect that succeeded was repeated and failed.
C8_Witness ==
    /\ last.op = "disconnectFrom" /\ prev.op = "disconnectFrom"
    /\ prev.ret /\ ~last.ret
    /\ \E a \in Objs : getOutputs(CurE, a) # {}

\* C9: for all neurons A and B, B is in A's outgoing map exactly when A is in
\* B's incoming list, and A is there at most once.
C9_EdgeSymmetry ==
    \A a \in Objs, b \in Objs :
        /\ (b \in getOutputs(CurE, a)) <=> InSeq(a, getInputs(CurE, b))
        /\ CountIn(getInputs(CurE, b), a) <= 1

\* A registered neuron was removed while two other neurons stay connected
\* in both directions.
C9_Witness ==
    /\ last.op = "removeNeuron" /\ last.ret
    /\ \E a \in Objs, b \in Objs : HasEdge(CurE, a, b) /\ HasEdge(CurE, b, a)

\* C10: connectTo with a null target or the neuron itself returns false and
\* leaves every outgoing map and incoming list unchanged; no neuron ever has
\* an edge to itself.
C10_NoSelfLoop ==
    /\ [][(/\ last'.op = "connectTo"
            /\ (last'.b = Null \/ last'.b = last'.a)
            /\ ConnectTo(last'.a, last'.b, last'.w))
                => (~last'.ret /\ UNCHANGED EdgeVars)]_vars
    /\ [](\A a \in Objs : a \notin getOutputs(CurE, a))

\* A neuron that has an outgoing edge was asked to connect to itself.
C10_Witness ==
    /\ last.op = "connectTo" /\ last.b = last.a /\ ~last.ret
    /\ getOutputs(CurE, last.a) # {}

\* C11: after removeNeuron(id) has returned true the id is not registered, the
\* removed neuron is on neither the input nor the output list, and no neuron
\* has it among its outputs or its inputs; for an id that is not registered
\* the call returns false and changes nothing.
C11_RemoveNeuronCleansUp ==
    [][last'.op = "removeNeuron" =>
          LET id   == last'.a
              gone == neurons[id]
          IN  IF last'.ret
              THEN /\ gone # Null
                   /\ neurons'[id] = Null
                   /\ \A x \in Ids : neurons'[x] # gone
                   /\ ~InSeq(gone, inputNeurons') /\ ~InSeq(gone, outputNeurons')
                   /\ \A o \in Objs :
                         /\ gone \notin DOMAIN connections'[o]
                         /\ ~InSeq(gone, inputs'[o])
              ELSE /\ gone = Null
                   /\ UNCHANGED ProgramVars]_vars

\* A neuron that was on both lists and had an edge each way has been removed,
\* while another neuron stays registered, listed and connected.
C11_Witness ==
    /\ last.op = "removeNeuron" /\ last.ret /\ last.b = "n1"
    /\ last.refs.lists = {"input", "output"}
    /\ last.refs.outs = {"n2"} /\ last.refs.ins = {"n2"}
    /\ neurons["b"] = "n2" /\ inputNeurons = <<"n2">>
    /\ HasEdge(CurE, "n3", "n2")

\* C12: createNeuron with an id that is already registered returns the
\* registered instance whatever type is asked for, creates nothing and leaves
\* the registry, the lists, every neuron's state, potential and threshold and
\* every edge unchanged; and each registered neuron is registered under its own
\* id only, so the ids in the registry are unique.
C12_CreateNeuronIdempotent ==
    /\ [](\A x \in Ids : neurons[x] # Null =>
             /\ IdOf(neurons[x]) = x
             /\ \A y \in Ids \ {x} : neurons[y] # neurons[x])
    /\ [][last'.op = "createNeuron" /\ last'.had # Null =>
             /\ last'.ret = last'.had
             /\ neurons'[last'.a] = last'.had
             /\ UNCHANGED ProgramVars]_vars

\* createNeuron has been called for a registered, inhibited PROCESSING neuron
\* with edges, asking for a SENSORY neuron.
C12_Witness ==
    /\ last.op = "createNeuron" /\ last.had = "n1" /\ last.b = "SENSORY"
    /\ threshold["n1"] = DefaultThreshold /\ state["n1"] = "INHIBITED"
    /\ HasEdge(CurE, "n1", "n2") /\ HasEdge(CurE, "n2", "n1")
    /\ InSeq("n1", inputNeurons)

\* C16: in every reachable state of a network no neuron is on both the input
\* list and the output list.
C16_AtMostOneList ==
    \A o \in Objs : ~(InSeq(o, inputNeurons) /\ InSeq(o, outputNeurons))

\* Thread t is inside Neuron::fire at the given position.
Firing(t, pc) == stack[t] # <<>> /\ Top(t).k = "fire" /\ Top(t).pc = pc

\* C13: fire() on a neuron with no outgoing edge and no stored output signal
\* stores exactly one default signal, whose payload carries the neuron's id as
\* source and the potential the neuron fires with as strength; it delivers
\* nothing and invokes each fire listener.
C13_DefaultSignal ==
    /\ [][\A t \in Threads :
            (/\ Firing(t, "start") /\ stack'[t] # stack[t]
             /\ outputSignals[Top(t).self] = <<>>
             /\ getOutputs(CurE, Top(t).self) = {}) =>
                LET o == Top(t).self
                IN  /\ Len(outputSignals'[o]) = 1
                    /\ outputSignals'[o][1].source = IdOf(o)
                    /\ outputSignals'[o][1].data = potential[o]
                    /\ \A x \in Objs \ {o} : outputSignals'[x] = outputSignals[x]
                    /\ inputSignals' = inputSignals
                    /\ events' = events]_vars
    /\ []((/\ Crossed
           /\ getOutputs(CurE, last.a) = {}
           /\ last.pre.stored[last.a] = 0) =>
              LET fired == potentialAfter(last.pre.potential[last.a],
                                          processedOf(gates[last.a], <<last.sig>>))
              IN  /\ outputSignals[last.a]
                        = <<defaultSignal(last.a, fired)>>
                            \o processedOf(gates[last.a], <<last.sig>>)
                  /\ \A i \in DOMAIN events : events[i].e # "deliver"
                  /\ \A o \in Objs : inputSignals[o] = <<>>
                  /\ \A i \in 1..Len(fireCallbacks[last.a]) :
                        \E k \in DOMAIN events :
                            events[k] = Event("listener", last.a, Null, i))

\* A neuron with no edge, nothing stored and a listener has fired with a
\* potential of 0.9.
C13_Witness ==
    /\ Crossed
    /\ getOutputs(CurE, last.a) = {}
    /\ last.pre.stored[last.a] = 0
    /\ fireCallbacks[last.a] # <<>>
    /\ outputSignals[last.a][1].data = 90
    /\ outputSignals[last.a][1].source = "a"

\* The event that fire() of neuron o has left its delivery loop.
IsFire(i, o) == events[i].e = "fire" /\ events[i].a = o

\* C14: within one fire() each registered fire listener is invoked exactly
\* once, in registration order, and only after every delivery of that fire()
\* and the whole cascade it starts has returned: the listeners of a neuron run
\* as one block when its delivery loop has ended, and when the caller's
\* receiveSignal has fired a neuron with no path back to it, every delivery
\* and every listener of every other neuron came before that neuron's first
\* listener.
C14_ListenersAfterDeliveries ==
    /\ \A m \in DOMAIN events :
          events[m].e = "listener" =>
              LET o == events[m].a
                  i == events[m].v
              IN  /\ i >= 1 /\ i <= Len(fireCallbacks[o])
                  /\ m - i >= 1 /\ IsFire(m - i, o)
                  /\ \A j \in 1..(i - 1) : events[m - i + j] = Event("listener", o, Null, j)
    /\ \A k \in DOMAIN events :
          events[k].e = "fire" =>
              LET o == events[k].a
                  n == Len(fireCallbacks[o])
              IN  /\ \A i \in 1..n :
                        k + i <= Len(events) => events[k + i] = Event("listener", o, Null, i)
                  /\ (Idle \/ k + n < Len(events)) => k + n <= Len(events)
    /\ Crossed =>
          LET a == last.a
              sent == IF last.pre.stored[a] = 0 THEN 1 ELSE last.pre.stored[a]
          IN  /\ CountEvents("fire", a) = 1
              /\ CountEvents("deliver", a) = Cardinality(getOutputs(CurE, a)) * sent
              /\ \A k \in DOMAIN events :
                    IsFire(k, a) =>
                        /\ Len(events) >= k + Len(fireCallbacks[a])
                        /\ \A j \in (k + Len(fireCallbacks[a]) + 1)..Len(events) :
                              events[j].e = "state" /\ events[j].a = a
                        /\ \A j \in 1..(k - 1) : events[j].e # "listener" \/ events[j].a # a

\* A receiveSignal fired a neuron with a listener; its target fired in turn,
\* the target's listener ran, and then the first neuron's listener ran.
C14_Witness ==
    /\ Crossed
    /\ \E b \in getOutputs(CurE, last.a) :
          /\ fireCallbacks[b] # <<>> /\ fireCallbacks[last.a] # <<>>
          /\ \E i, j \in DOMAIN events :
                /\ i < j
                /\ events[i] = Event("listener", b, Null, 1)
                /\ events[j] = Event("listener", last.a, Null, 1)

IsPassEvent(x) == x.e = "process" \/ x.e = "observer"

IsPrefix(p, q) == Len(p) <= Len(q) /\ p = SubSeq(q, 1, Len(p))

\* Where the pass that begins at event s ends in the log: at the next pass.
PassEnd(s) ==
    IF \E k \in (s + 1)..Len(events) : events[k].e = "pass"
    THEN CHOOSE k \in (s + 1)..Len(events) :
            /\ events[k].e = "pass"
            /\ \A j \in (s + 1)..(k - 1) : events[j].e # "pass"
    ELSE Len(events) + 1

\* The calls one pass of thread t makes when the registered neurons on
\* neither list are taken in the order q.
PassOrder(t, q) ==
    [i \in 1..Len(inputNeurons) |-> Event("process", inputNeurons[i], Null, 0)]
    \o [i \in 1..Len(q) |-> Event("process", q[i], Null, 0)]
    \o [i \in 1..Len(outputNeurons) |-> Event("process", outputNeurons[i], Null, 0)]
    \o [i \in 1..Len(processCallbacks) |-> Event("observer", t, Null, i)]

\* C15: one pass calls processSignals on the input neurons in list order,
\* then on every registered neuron that is on neither list, then on the output
\* neurons in list order, and then invokes each observer once in
\* registration order: at any moment the calls of a pass are the beginning of
\* that sequence, and all of it when the pass has ended.
C15_PassOrder ==
    \A s \in DOMAIN events :
        events[s].e = "pass" =>
            LET t     == events[s].a
                made  == SelectSeq(SubSeq(events, s + 1, PassEnd(s) - 1), IsPassEvent)
                rest  == {o \in Objs : /\ \E id \in Ids : neurons[id] = o
                                       /\ ~InSeq(o, inputNeurons)
                                       /\ ~InSeq(o, outputNeurons)}
                ended == PassEnd(s) <= Len(events) \/ ~InPass(t)
            IN  \E q \in Orders(rest) :
                    /\ IsPrefix(made, PassOrder(t, q))
                    /\ ended => made = PassOrder(t, q)

\* A pass has ended that processed an input neuron, a neuron on neither list
\* and an output neuron, the input neuron fired in it, and two observers ran.
C15_Witness ==
    /\ Idle /\ passes > 0
    /\ inputNeurons # <<>> /\ outputNeurons # <<>>
    /\ \E o \in Objs : /\ \E id \in Ids : neurons[id] = o
                       /\ ~InSeq(o, inputNeurons) /\ ~InSeq(o, outputNeurons)
    /\ Len(processCallbacks) = 2
    /\ CountEvents("observer", "t1") = 2
    /\ CountEvents("fire", "n1") > 0

\* C17: while a neuron is REFRACTORY or INHIBITED its processSignals is a
\* no-op: no neuron's potential, state, buffer or output changes, nothing is
\* delivered and no listener runs, so every pending signal stays buffered;
\* and a receiveSignal made on it by the caller returns with the buffer one
\* signal longer, the new signal last, and nothing else of the neuron changed.
C17_BlockedNeuronBuffers ==
    /\ [][\A t \in Threads :
            (/\ stack[t] # <<>> /\ stack'[t] # stack[t]
             /\ Top(t).k = "proc" /\ Top(t).pc = "enter"
             /\ state[Top(t).self] \in {"REFRACTORY", "INHIBITED"}) =>
                /\ stack' = Pop(t)
                /\ UNCHANGED <<ProgramVars, events>>]_vars
    /\ []((/\ Idle /\ last.op = "receiveSignal"
           /\ last.pre.state[last.a] \in {"REFRACTORY", "INHIBITED"}) =>
              LET o == last.a
              IN  /\ Len(inputSignals[o]) = last.pre.buffered[o] + 1
                  /\ inputSignals[o][Len(inputSignals[o])] = last.sig
                  /\ state[o] = last.pre.state[o]
                  /\ potential[o] = last.pre.potential[o]
                  /\ Len(outputSignals[o]) = last.pre.stored[o]
                  /\ events = <<>>)

\* An inhibited neuron with an outgoing edge that already held one pending
\* signal has received another one.
C17_Witness ==
    /\ Idle /\ last.op = "receiveSignal"
    /\ last.pre.state[last.a] = "INHIBITED"
    /\ last.pre.buffered[last.a] = 1
    /\ Len(inputSignals[last.a]) = 2
    /\ getOutputs(CurE, last.a) # {}

\* C18: every signal that fire() delivers along an edge carries a strength
\* within [0, 1], whatever the weight of the edge.
C18_DeliveredStrengthClamped ==
    \A i \in DOMAIN events :
        events[i].e = "deliver" =>
            /\ events[i].v # NaN
            /\ events[i].v >= 0 /\ events[i].v <= One

\* C20: the strength field of every Synapse is a number within [0, 1] after
\* any sequence of construction, setStrength, derive and combine, and
\* getStrength() after setStrength(s) returns s bounded into [0, 1].
C20_StrengthInUnitInterval ==
    /\ \A i \in DOMAIN signals :
          /\ signals[i].strength # NaN
          /\ signals[i].strength >= 0 /\ signals[i].strength <= One
    /\ (last.op = "setStrength" /\ last.w # NaN) =>
          signals[last.a].strength
              = (IF last.w < 0 THEN 0 ELSE IF last.w > One THEN One ELSE last.w)

\* setStrength(1.5) has been called on one signal while another one holds
\* 0.45, the mean that combine made of 0.3 and 0.6.
C20_Witness ==
    /\ last.op = "setStrength" /\ last.w = 150
    /\ signals[last.a].strength = One
    /\ \E i \in DOMAIN signals : signals[i].strength = 45

\* The caller's receiveSignal was made on a RESTING neuron a that it raises to
\* its threshold, a and b are connected both ways, and the first signal a
\* delivers raises the RESTING neuron b to its threshold.
CycleFires(b) ==
    /\ last.op = "receiveSignal"
    /\ b # last.a
    /\ HasEdge(CurE, last.a, b) /\ HasEdge(CurE, b, last.a)
    /\ connections[b][last.a] > 0
    /\ last.pre.state[last.a] = "RESTING" /\ last.pre.buffered[last.a] = 0
    /\ last.pre.state[b] = "RESTING" /\ last.pre.buffered[b] = 0
    /\ LET a   == last.a
           p1  == potentialAfter(last.pre.potential[a], <<last.sig>>)
           out == IF last.pre.stored[a] = 0 THEN p1
                  ELSE readStrength(outputSignals[a][1])
           p2  == potentialAfter(last.pre.potential[b],
                                 <<Sig(0, FMul(out, connections[a][b]))>>)
       IN  /\ p1 # NaN /\ p1 >= threshold[a]
           /\ p2 # NaN /\ p2 >= threshold[b]

\* C19: there is no cycle guard: when a receiveSignal fires a neuron on a
\* cycle a -> b -> a whose weights and thresholds let b reach its threshold
\* from what a delivers, the call never returns, and the recursion goes on to
\* whatever depth the stack allows.
C19_CycleNeverReturns ==
    /\ []((\E b \in Objs : CycleFires(b)) => ~Idle)
    /\ ((\E b \in Objs : CycleFires(b)) ~> Len(stack["t1"]) = MaxDepth)

\* The recursion around the cycle has reached the depth bound, each of the two
\* neurons being in fire() more than once.
C19_Witness ==
    /\ CycleFires("n2")
    /\ Len(stack["t1"]) = MaxDepth
    /\ Cardinality({i \in DOMAIN stack["t1"] :
                       stack["t1"][i].k = "fire" /\ stack["t1"][i].self = "n1"}) >= 2

\* The neurons the log says an injectSignal call handed its signal to.
Injected == {events[i].a : i \in {k \in DOMAIN events : events[k].e = "inject"}}

\* C21: injectSignal returns true if and only if the signal was delivered to
\* at least one neuron, the deliveries going to the neuron registered under
\* the target id, or to every neuron of the input layer when the id is empty,
\* each neuron once; and when it returns false (null signal, unknown id, empty
\* id with no input neuron) no neuron's pending buffer, potential or state has
\* changed.
C21_InjectSignalReturn ==
    (last.op = "injectSignal" /\ last.done) =>
        /\ last.ret <=> Injected # {}
        /\ last.ret =>
              /\ last.sig # <<>>
              /\ Injected = IF last.a # "" THEN {last.net.neurons[last.a]}
                            ELSE {o \in Objs : InSeq(o, last.net.inputNeurons)}
              /\ \A o \in Injected : CountEvents("inject", o) = 1
        /\ ~last.ret =>
              /\ \/ last.sig = <<>>
                 \/ last.a # "" /\ last.net.neurons[last.a] = Null
                 \/ last.a = "" /\ last.net.inputNeurons = <<>>
              /\ state = last.pre.state
              /\ potential = last.pre.potential
              /\ \A o \in Objs : Len(inputSignals[o]) = last.pre.buffered[o]

\* Both outcomes have happened: a call with an empty id has returned true
\* after serving two input neurons, one of them inhibited and still holding
\* the signal.
C21_Witness ==
    /\ last.op = "injectSignal" /\ last.done /\ last.ret
    /\ last.a = "" /\ Cardinality(Injected) = 2
    /\ \E o \in Injected : state[o] = "INHIBITED" /\ inputSignals[o] # <<>>

\* C22: after Network::reset() every registered neuron is back in its initial
\* state: RESTING, potential 0, no pending buffered signal.
C22_ResetRestoresInitialState ==
    last.op = "reset" =>
        \A o \in Registered(last.net) :
            /\ state[o] = "RESTING"
            /\ potential[o] = 0
            /\ inputSignals[o] = <<>>

\* The inputs of the recorded process call whose strength is at or above the
\* gate's threshold.
Qualifying == {k \in DOMAIN last.inputs : last.inputs[k].strength >= last.gate.threshold}

\* C26: an XOR gate's process returns no output unless there are exactly two
\* inputs; with two it activates if and only if exactly one of the two
\* strengths is at or above the threshold, and the output strength is then
\* the absolute difference of the two strengths.
C26_XorGate ==
    (last.op = "process" /\ last.gate.kind = "XOR") =>
        /\ Len(last.inputs) # 2 => last.out = <<>>
        /\ Len(last.inputs) = 2 =>
              /\ last.out # <<>> <=> Cardinality(Qualifying) = 1
              /\ last.out # <<>> =>
                    \/ last.out[1].strength = last.inputs[1].strength - last.inputs[2].strength
                    \/ last.out[1].strength = last.inputs[2].strength - last.inputs[1].strength

\* The spec's example: strengths 0.8 and 0.2 at threshold 0.5 have given 0.6.
C26_Witness ==
    /\ last.op = "process" /\ last.gate.kind = "XOR" /\ last.gate.threshold = 50
    /\ Len(last.inputs) = 2
    /\ last.inputs[1].strength = 80 /\ last.inputs[2].strength = 20
    /\ last.out # <<>> /\ last.out[1].strength = 60

\* C27: an OR gate's process activates if and only if at least one input has
\* a strength at or above the threshold, for every threshold and strength in
\* [0, 1]; the output is derived from the strongest qualifying input (so it
\* has that input's strength).
C27_OrGate ==
    (last.op = "process" /\ last.gate.kind = "OR") =>
        /\ last.out # <<>> <=> Qualifying # {}
        /\ last.out # <<>> =>
              /\ \E k \in Qualifying : last.out[1].strength = last.inputs[k].strength
              /\ \A k \in Qualifying : last.out[1].strength >= last.inputs[k].strength

Entering ==
    /\ stack["t1"] # <<>>
    /\ Top("t1").k = "proc" /\ Top("t1").pc = "enter"
    /\ state[Top("t1").self] # "REFRACTORY" /\ state[Top("t1").self] # "INHIBITED"

\* The signals the call that was entering has produced: they are in the
\* frame that was on top.
Produced == stack'["t1"][Len(stack["t1"])].processed

\* The gates of gs that are active and give a result for sig.
Claimers(gs, sig) == {k \in DOMAIN gs : gs[k].active /\ process(gs[k], <<sig>>) # <<>>}

\* C23: in processSignals of an unblocked neuron each buffered signal is
\* offered to the gates in registration order, inactive gates being skipped;
\* the first active gate with a result claims it (the result of no later gate
\* is used); a signal no gate claims passes through unchanged; and afterwards
\* the pending buffer is empty.
C23_GatesInRegistrationOrder ==
    [][(stack'["t1"] # stack["t1"] /\ Entering /\ inputSignals[Top("t1").self] # <<>>) =>
          LET o == Top("t1").self
              buffered == inputSignals[o]
          IN  /\ inputSignals'[o] = <<>>
              /\ Len(Produced) = Len(buffered)
              /\ \A i \in DOMAIN buffered :
                    LET cs == Claimers(gates[o], buffered[i])
                    IN  IF cs = {} THEN Produced[i] = buffered[i]
                        ELSE \E k \in cs :
                                /\ \A m \in cs : k <= m
                                /\ <<Produced[i]>> = process(gates[o][k], <<buffered[i]>>)]_vars

\* A signal has been claimed by the second gate because the first was
\* inactive, and another signal of the same buffer passed through unclaimed.
C23_Witness ==
    /\ stack["t1"] # <<>> /\ Top("t1").k = "proc" /\ Top("t1").pc = "store"
    /\ Len(gates["n1"]) = 2
    /\ ~gates["n1"][1].active /\ gates["n1"][1].kind = "NOT"
    /\ gates["n1"][2].active /\ gates["n1"][2].kind = "THRESHOLD"
    /\ Top("t1").processed = <<Sig(20, 20), Sig(80, NoData)>>

\* The contributions of the signals sigs: the number under the payload key
\* "strength", or 0.5 when the key is absent or its text does not parse.
RECURSIVE Contributions(_)
Contributions(sigs) ==
    IF sigs = <<>> THEN <<>>
    ELSE <<IF Head(sigs).data \in {NoData, Junk} THEN DefaultStrength ELSE Head(sigs).data>>
         \o Contributions(Tail(sigs))

RECURSIVE SumOf(_)
SumOf(xs) == IF xs = <<>> THEN 0 ELSE Head(xs) + SumOf(Tail(xs))

IsState(i, o, new) == events[i].e = "state" /\ events[i].a = o /\ events[i].b = new

\* C24: in a processSignals call that reaches the threshold, fire() runs to
\* completion first (the deliveries, then each fire listener), then the
\* state-change listeners see old state -> REFRACTORY with the potential not
\* yet reset, then the potential is 0 when they see REFRACTORY -> RESTING,
\* nothing coming between the two transitions; a neuron is REFRACTORY only
\* while the call that made it so is between the two, hence never when the
\* caller's call has returned.
C24_RefractoryWithinTheCall ==
    /\ \A o \in Objs :
          state[o] = "REFRACTORY" =>
              /\ \E k \in DOMAIN stack["t1"] :
                    /\ stack["t1"][k].k = "proc" /\ stack["t1"][k].self = o
                    /\ stack["t1"][k].pc = "reset"
              /\ events # <<>> /\ IsState(Len(events), o, "REFRACTORY")
    /\ \A i \in DOMAIN events :
          events[i].e = "state" =>
              LET o == events[i].a
                  L == Len(fireCallbacks[o])
              IN  IF events[i].b = "REFRACTORY"
                  THEN /\ events[i].old # "REFRACTORY"
                       /\ i > L + 1
                       /\ IsFire(i - L - 1, o)
                       /\ \A j \in 1..L : events[i - L - 1 + j] = Event("listener", o, Null, j)
                       /\ \E d \in 1..(i - L - 1) :
                             \/ d = i - L - 1 /\ getOutputs(CurE, o) = {}
                             \/ events[d].e = "deliver" /\ events[d].a = o
                       /\ events[i].v = events[i - L - 1].v
                       /\ events[i].v >= threshold[o]
                       /\ i < Len(events) =>
                             events[i + 1] = StateChange(o, "REFRACTORY", "RESTING", 0)
                       /\ i = Len(events) => state[o] = "REFRACTORY"
                  ELSE /\ events[i].b = "RESTING" /\ events[i].old = "REFRACTORY"
                       /\ events[i].v = 0
                       /\ i > 1 /\ IsState(i - 1, o, "REFRACTORY")
    /\ Idle => \A o \in Objs :
                  Cardinality({i \in DOMAIN events : IsFire(i, o)})
                      = Cardinality({i \in DOMAIN events : IsState(i, o, "RESTING")})

\* A cascade has returned in which n1 and n2 each fired, n1 with a listener and
\* a delivery, and each went through the two transitions.
C24_Witness ==
    /\ Idle
    /\ fireCallbacks["n1"] # <<>>
    /\ \E i \in DOMAIN events : events[i].e = "deliver" /\ events[i].a = "n1"
    /\ \A o \in {"n1", "n2"} :
          /\ state[o] = "RESTING" /\ potential[o] = 0
          /\ \E i \in DOMAIN events : IsState(i, o, "REFRACTORY")
          /\ \E i \in DOMAIN events : IsState(i, o, "RESTING")

\* The positions in the log of the events of kind e.
Positions(e) == {i \in DOMAIN events : events[i].e = e}

\* C29: ConsciousNetwork::processSignals, called with no pass in progress and
\* a focus id that names a registered neuron, delivers exactly one attention
\* signal, to that neuron, before the base pass processes any neuron; with no
\* focus id, or one that is not registered, no signal is injected; and the
\* base pass runs in either case.
C29_AttentionBeforeBasePass ==
    (last.op = "ConsciousNetwork::processSignals" /\ ~last.dropped) =>
        LET named == last.focus # "" /\ last.net.neurons[last.focus] # Null
        IN  /\ Cardinality(Positions("attention")) <= 1
            /\ \A i \in Positions("attention") :
                  named /\ events[i].a = last.net.neurons[last.focus]
            /\ \A p \in Positions("pass") \cup Positions("process") :
                  /\ named => \E i \in Positions("attention") : i < p
                  /\ \E q \in Positions("pass") : q <= p
            /\ Idle => Cardinality(Positions("pass")) = 1

\* A call with a registered focus has returned: the focused neuron got the
\* attention signal, fired on it, and the base pass then processed it.
C29_Witness ==
    /\ Idle /\ last.op = "ConsciousNetwork::processSignals"
    /\ last.focus = "a" /\ last.net.neurons["a"] = "n1"
    /\ Positions("attention") = {1}
    /\ \E i \in DOMAIN events : IsFire(i, "n1")
    /\ \E p \in Positions("process") : events[p].a = "n1"

\* Rule j of the recorded call matches: each item of its pattern is a tag or a
\* metadata key of a neuron that was registered.
Matches(j) ==
    \A k \in DOMAIN last.patterns[j].pattern :
        \E id \in Ids :
            /\ last.net.neurons[id] # Null
            /\ \/ last.patterns[j].pattern[k] \in last.tags[last.net.neurons[id]]
               \/ last.patterns[j].pattern[k] \in last.metadata[last.net.neurons[id]]

\* The response signals rule j has had delivered to neuron o.
Responses(o, j) == {i \in Positions("response") : events[i].a = o /\ events[i].v = j}

\* C30: SubconsciousNetwork::processSignals evaluates every rule before the
\* base pass; a rule matches exactly when each item of its pattern is a tag or
\* a metadata key of at least one registered neuron (an empty pattern always
\* does); for each matching rule exactly one response signal is delivered to
\* every output-layer neuron, and for a rule that does not match none is.
C30_RulesBeforeBasePass ==
    (last.op = "SubconsciousNetwork::processSignals" /\ ~last.dropped) =>
        /\ \A i \in Positions("response") :
              /\ events[i].v \in DOMAIN last.patterns /\ Matches(events[i].v)
              /\ InSeq(events[i].a, last.net.outputNeurons)
              /\ Cardinality(Responses(events[i].a, events[i].v)) = 1
              /\ \A p \in Positions("pass") : i < p
        /\ Positions("pass") # {} =>
              \A j \in DOMAIN last.patterns, o \in Objs :
                  Cardinality(Responses(o, j)) =
                      IF Matches(j) /\ InSeq(o, last.net.outputNeurons) THEN 1 ELSE 0
        /\ Idle => Cardinality(Positions("pass")) = 1

\* A call has returned in which the first rule did not match and the second,
\* matching through a tag and a metadata key, answered both output neurons.
C30_Witness ==
    /\ Idle /\ last.op = "SubconsciousNetwork::processSignals"
    /\ Len(last.patterns) = 2
    /\ last.patterns[1].pattern = <<"zz">>
    /\ last.patterns[2].pattern = <<"processing", "alert">>
    /\ Len(last.net.outputNeurons) = 2
    /\ \A o \in {"n2", "n3"} : Cardinality(Responses(o, 2)) = 1
    /\ Positions("response") # {} /\ Positions("pass") # {}

\* The pass the caller made began with every neuron's buffer empty.
QuietPass ==
    /\ last.op = "Network::processSignals"
    /\ \A o \in Objs : last.pre.inputSignals[o] = <<>>

\* C31: a Network::processSignals pass made when every neuron's pending
\* buffer is empty changes no neuron's potential, state, edges or stored
\* signals and fires nothing: at every moment of the pass these are what
\* they were before it, no signal is delivered and no fire listener runs; and
\* when the pass has returned each registered observer has been invoked
\* exactly once.
C31_QuietPass ==
    QuietPass =>
        /\ Everything = last.pre
        /\ \A i \in DOMAIN events : events[i].e \in {"pass", "process", "observer"}
        /\ Idle =>
              \A j \in DOMAIN processCallbacks :
                  Cardinality({i \in DOMAIN events :
                                  events[i].e = "observer" /\ events[i].v = j}) = 1

\* A pass has returned that began with every buffer empty, over an input
\* neuron, a neuron on neither list and an output neuron, of which one had
\* its potential at its threshold, with two observers registered.
C31_Witness ==
    /\ QuietPass /\ Idle
    /\ Len(processCallbacks) = 2
    /\ Cardinality(Registered(CurN)) = 2
    /\ inputNeurons = <<"n1">> /\ outputNeurons = <<"n3">>
    /\ \E o \in Registered(CurN) : potential[o] >= threshold[o] /\ state[o] = "RESTING"
    /\ \E o \in Registered(CurN) : potential[o] > 0

\* The neurons a signal was handed to in the call the caller made: the
\* receiver and every target of a delivery.
Reached == {last.a} \cup {events[i].b : i \in {k \in DOMAIN events : events[k].e = "deliver"}}

\* The receiveSignal call has returned.
Returned == Idle /\ last.op = "receiveSignal"

\* C32 as stated: over an acyclic graph with listeners that only observe,
\* every receiveSignal call returns, and when it has returned the pending
\* buffer of every neuron that is not REFRACTORY or INHIBITED is empty.
C32_CascadeTerminates ==
    /\ (~Idle) ~> Idle
    /\ [](Returned =>
            \A o \in Objs :
                state[o] \in {"REFRACTORY", "INHIBITED"} \/ inputSignals[o] = <<>>)

\* C32, for the neurons the call reaches: every receiveSignal call returns,
\* and when it has returned the pending buffer of the receiver and of every
\* neuron a signal was delivered to is empty unless that neuron is
\* REFRACTORY or INHIBITED.
C32_CascadeTerminatesForReached ==
    /\ (~Idle) ~> Idle
    /\ [](Returned =>
            \A o \in Reached :
                state[o] \in {"REFRACTORY", "INHIBITED"} \/ inputSignals[o] = <<>>)

\* A call on n1 has returned after deliveries along all three edges, more
\* than one of them to n3, with every neuron resting.
C32_Witness ==
    /\ Returned /\ last.a = "n1"
    /\ Reached = Objs
    /\ \A o \in Objs : state[o] = "RESTING"
    /\ CountEvents("deliver", "n1") >= 2 /\ CountEvents("deliver", "n2") >= 1
    /\ CountEvents("fire", "n3") >= 1

\* C33: the reentrancy flag is released on every exit path of a pass:
\* whenever no thread is inside a Network::processSignals pass the flag is
\* false, also after a pass that a throwing fire listener or observer ended,
\* and so no call is dropped when no pass is in flight.
C33_FlagReleasedOnEveryExit ==
    /\ (\A t \in Threads : ~InPass(t)) => ~processing
    /\ \A t \in Threads :
          (last = Dropped(t) /\ Len(stack[t]) = last.w) => \E u \in Threads : InPass(u)

\* C34: no Network operation invokes a listener or observer while it holds
\* the registry lock: a registry call made by a fire, state-change or process
\* listener is never made by the thread that owns neuronMutex, and so never
\* ends up waiting for that lock.
C34_NoCallbackUnderTheLock ==
    \A t \in Threads :
        \A i \in DOMAIN stack[t] :
            stack[t][i].k = "getNeuron" =>
                /\ ~neuronMutexOwnedBy(t)
                /\ stack[t][i].pc # "deadlock"

\* C35: a tier's pre-pass work is guarded as strictly as the base pass: a
\* ConsciousNetwork::processSignals call whose base pass was dropped at the
\* flag has injected no attention signal, and when the calls of both threads
\* have returned, with the focus on a registered neuron, as many attention
\* signals were injected as base passes were executed.
C35_PrePassGuardedLikeThePass ==
    /\ \A t \in Threads :
          (last = Call("processSignals", t, Null, 2, FALSE)) =>
              \A i \in Positions("attention") : events[i].b # t
    /\ (/\ \A t \in Threads : stack[t] = <<>>
        /\ passes = 2
        /\ focusedNeuronId # "" /\ neurons[focusedNeuronId] # Null) =>
           Cardinality(Positions("attention")) = Cardinality(Positions("pass"))

\* C36: processSignals called through the Network handle that
\* NetworkFactory::createNetwork returned for CONSCIOUS runs the tier's
\* pre-pass policy before the base pass, as a call on the ConsciousNetwork
\* itself does: when the call has returned, with the focus on a registered
\* neuron, that neuron was handed one attention signal, before the pass.
C36_HandleRunsTheTierPolicy ==
    (/\ Idle /\ last.op = "handle->processSignals"
     /\ last.class = "ConsciousNetwork"
     /\ last.focus # "" /\ last.net.neurons[last.focus] # Null) =>
        /\ Cardinality(Positions("attention")) = 1
        /\ \A i \in Positions("attention") :
              /\ events[i].a = last.net.neurons[last.focus]
              /\ \A p \in Positions("pass") : i < p

\* C37: a neuron's stored output signals are consumed by firing.  The
\* default signal is made by a fire() that finds nothing stored and is
\* delivered by that fire(); so when a neuron whose stored signals begin with
\* its default signal fires again, the default signal is not among the
\* signals delivered, and each outgoing edge gets fewer signals than the
\* neuron had stored before the call.
C37_StoredOutputsConsumedByFiring ==
    (/\ Crossed
     /\ last.pre.stored[last.a] > 0
     /\ "source" \in DOMAIN outputSignals[last.a][1]) =>
        \A b \in getOutputs(CurE, last.a) :
            Len(Delivered(last.a, b)) < last.pre.stored[last.a]

\* C38: every neuron on the input list or the output list is the very object
\* the registry holds under that neuron's id.
C38_ListedNeuronsAreRegistered ==
    \A o \in Objs :
        (InSeq(o, inputNeurons) \/ InSeq(o, outputNeurons)) => neurons[IdOf(o)] = o

\* C39: when a built-in gate claims a buffered signal, the signal's
\* contribution to the potential is the strength of the gate's output signal:
\* a neuron that processes one buffered signal which one of its active gates
\* claims ends with the old potential plus that strength, clamped to [0, 1].
C39_GateOutputStrengthContributes ==
    [][(/\ stack'["t1"] # stack["t1"] /\ Entering
        /\ Len(inputSignals[Top("t1").self]) = 1
        /\ Claimers(gates[Top("t1").self], inputSignals[Top("t1").self][1]) # {}
        /\ potential[Top("t1").self] # NaN) =>
          LET o == Top("t1").self
              x == potential[o] + Produced[1].strength
          IN  potential'[o] = IF x < 0 THEN 0 ELSE IF x > One THEN One ELSE x]_vars

\* C40: connectNeurons is atomic with respect to removeNeuron: whenever the
\* connectNeurons call and the calls of the other thread have all returned,
\* no neuron in the registry has an outgoing edge to, or a back-reference
\* from, a neuron that is not in the registry.
C40_ConnectAtomicWithRemove ==
    (\A t \in Threads : stack[t] = <<>>) =>
        \A a \in Registered(CurN) :
            /\ getOutputs(CurE, a) \subseteq Registered(CurN)
            /\ \A i \in DOMAIN inputs[a] : inputs[a][i] \in Registered(CurN)

====
